---------------------------- MODULE Spec2Model ----------------------------
(***************************************************************************)
(* ENOE consolidation pipeline (src/src/etl-enoe/parquet.py) and the       *)
(* dictionary consolidator / label lookup                                  *)
(* (src/src/etl-enoe/microdatos/apply_enoe_labels.py).                     *)
(*                                                                         *)
(* A Python str is a sequence of one-character strings, so that upper(),   *)
(* lower(), strip(), zfill(), int(), regular expressions and sorting are   *)
(* computed character by character.  Three characters outside ASCII are    *)
(* written as tokens: "N~" is U+00D1, "n~" is U+00F1 and "<?>" is the      *)
(* replacement character U+FFFD.                                           *)
(***************************************************************************)
EXTENDS Integers, Sequences, FiniteSets, TLC

(***************************************************************************)
(* Bounds of the model.                                                    *)
(***************************************************************************)
\* files in the input directory
MaxFiles == 2
\* dictionary entries in the corpus
MaxEntries == 2

(***************************************************************************)
(* Characters and Python str methods.                                      *)
(***************************************************************************)
\* the characters of the model, in code point order
CodePoints ==
  << " ", ",", "-", ".", "0", "1", "2", "3", "4", "5", "6", "7", "8", "9", ";",
     "A", "B", "C", "D", "E", "F", "G", "H", "I", "J", "K", "L", "M",
     "N", "O", "P", "Q", "R", "S", "T", "U", "V", "W", "X", "Y", "Z", "_",
     "a", "b", "c", "d", "e", "f", "g", "h", "i", "j", "k", "l", "m",
     "n", "o", "p", "q", "r", "s", "t", "u", "v", "w", "x", "y", "z",
     "N~", "n~", "<?>" >>

Chars == { CodePoints[i] : i \in 1..Len(CodePoints) }

Ord == [ c \in Chars |-> CHOOSE i \in 1..Len(CodePoints) : CodePoints[i] = c ]

UpperCase == << "A", "B", "C", "D", "E", "F", "G", "H", "I", "J", "K", "L", "M",
                "N", "O", "P", "Q", "R", "S", "T", "U", "V", "W", "X", "Y", "Z", "N~" >>

LowerCase == << "a", "b", "c", "d", "e", "f", "g", "h", "i", "j", "k", "l", "m",
                "n", "o", "p", "q", "r", "s", "t", "u", "v", "w", "x", "y", "z", "n~" >>

Digits == << "0", "1", "2", "3", "4", "5", "6", "7", "8", "9" >>

IsDigit(c) == \E i \in 1..Len(Digits) : Digits[i] = c

DigitVal(c) == (CHOOSE i \in 1..Len(Digits) : Digits[i] = c) - 1

IsUpperChar(c) == \E i \in 1..Len(UpperCase) : UpperCase[i] = c

IsLowerChar(c) == \E i \in 1..Len(LowerCase) : LowerCase[i] = c

UpperChar(c) ==
  IF IsLowerChar(c)
  THEN UpperCase[CHOOSE i \in 1..Len(LowerCase) : LowerCase[i] = c]
  ELSE c

LowerChar(c) ==
  IF IsUpperChar(c)
  THEN LowerCase[CHOOSE i \in 1..Len(UpperCase) : UpperCase[i] = c]
  ELSE c

\* str.upper()
Upper(s) == [ i \in 1..Len(s) |-> UpperChar(s[i]) ]

\* str.lower()
Lower(s) == [ i \in 1..Len(s) |-> LowerChar(s[i]) ]

\* \w of the re module
IsWordChar(c) == IsDigit(c) \/ IsUpperChar(c) \/ IsLowerChar(c) \/ c = "_"

\* [A-Z0-9]
IsUpperAlnum(c) == IsDigit(c) \/ (IsUpperChar(c) /\ c # "N~")

\* the comparison of two str by code points: s < t
RECURSIVE StrLess(_, _)
StrLess(s, t) ==
  IF t = << >> THEN FALSE
  ELSE IF s = << >> THEN TRUE
  ELSE IF Ord[Head(s)] # Ord[Head(t)] THEN Ord[Head(s)] < Ord[Head(t)]
  ELSE StrLess(Tail(s), Tail(t))

\* sub in s
Contains(s, sub) ==
  \E p \in 0..(Len(s) - Len(sub)) :
     \A j \in 1..Len(sub) : s[p + j] = sub[j]

\* str.strip(): the model's only whitespace character is the space
RECURSIVE LStrip(_)
LStrip(s) == IF s # << >> /\ Head(s) = " " THEN LStrip(Tail(s)) ELSE s

RECURSIVE RStrip(_)
RStrip(s) ==
  IF s # << >> /\ s[Len(s)] = " " THEN RStrip(SubSeq(s, 1, Len(s) - 1)) ELSE s

Strip(s) == RStrip(LStrip(s))

\* str(n) of a natural number
RECURSIVE NatToStr(_)
NatToStr(n) ==
  IF n < 10 THEN << Digits[n + 1] >>
  ELSE NatToStr(n \div 10) \o << Digits[(n % 10) + 1] >>

\* str(n) of an int
IntToStr(n) == IF n < 0 THEN << "-" >> \o NatToStr(0 - n) ELSE NatToStr(n)

\* int(s) of a digit string
RECURSIVE DigitsToNat(_)
DigitsToNat(s) ==
  IF s = << >> THEN 0
  ELSE 10 * DigitsToNat(SubSeq(s, 1, Len(s) - 1)) + DigitVal(s[Len(s)])

AllDigits(s) == \A i \in 1..Len(s) : IsDigit(s[i])

\* re.fullmatch(r"-?\d+", s)
IsIntNumeral(s) ==
  \/ s # << >> /\ AllDigits(s)
  \/ Len(s) >= 2 /\ s[1] = "-" /\ AllDigits(Tail(s))

\* int(s) where IsIntNumeral(s)
StrToInt(s) == IF s[1] = "-" THEN 0 - DigitsToNat(Tail(s)) ELSE DigitsToNat(s)

\* f"{n:02d}" for 0 <= n < 100
TwoDigits(n) == << Digits[(n \div 10) + 1], Digits[(n % 10) + 1] >>

\* str.zfill(width) of a string with no sign
RECURSIVE ZFill(_, _)
ZFill(s, width) == IF Len(s) >= width THEN s ELSE ZFill(<< "0" >> \o s, width)

\* the elements of a sequence
Range(s) == { s[i] : i \in 1..Len(s) }

\* the first index of x in s
IndexOf(s, x) == CHOOSE i \in 1..Len(s) : s[i] = x /\ \A j \in 1..(i - 1) : s[j] # x

\* "sep".join(parts)
RECURSIVE Join(_, _)
Join(parts, sep) ==
  IF parts = << >> THEN << >>
  ELSE IF Len(parts) = 1 THEN parts[1]
  ELSE parts[1] \o << sep >> \o Join(Tail(parts), sep)

\* the fields of one line of text under the separator sep
RECURSIVE Split(_, _)
Split(s, sep) ==
  IF \A i \in 1..Len(s) : s[i] # sep THEN << s >>
  ELSE LET p == CHOOSE i \in 1..Len(s) : s[i] = sep /\ \A j \in 1..(i - 1) : s[j] # sep
       IN  << SubSeq(s, 1, p - 1) >> \o Split(SubSeq(s, p + 1, Len(s)), sep)

\* str.count of one character
CountChar(s, c) == Cardinality({ i \in 1..Len(s) : s[i] = c })

SetMin(S) == CHOOSE x \in S : \A y \in S : x <= y

(***************************************************************************)
(* Optional values: None is the empty tuple, a value x is << x >>.  The    *)
(* same encoding is the missing value (pd.NA, NaN) of a cell: a text cell  *)
(* is a str, so a missing text cell and an empty field are both << >>, as  *)
(* they are after pandas.read_csv(dtype=str); a nullable Int64 cell is     *)
(* << n >> or << >>.                                                       *)
(***************************************************************************)
None == << >>

Some(x) == << x >>

NA == << >>

(***************************************************************************)
(* parquet.py: names, module tags, metadata from the file name.            *)
(***************************************************************************)
tagVIVT == << "V", "I", "V", "T" >>

tagHOGT == << "H", "O", "G", "T" >>

tagSDEMT == << "S", "D", "E", "M", "T" >>

tagCOE1T == << "C", "O", "E", "1", "T" >>

tagCOE2T == << "C", "O", "E", "2", "T" >>

MODULES == << tagVIVT, tagHOGT, tagSDEMT, tagCOE1T, tagCOE2T >>

col_anio == << "a", "n", "i", "o" >>

col_trimestre == << "t", "r", "i", "m", "e", "s", "t", "r", "e" >>

col_anio_trimestre ==
  << "a", "n", "i", "o", "_", "t", "r", "i", "m", "e", "s", "t", "r", "e" >>

MetaCols == << col_anio, col_trimestre, col_anio_trimestre >>

\* re_name = r"_(20\d{2})_trim(\d)\b", IGNORECASE, matched at position p of s
re_name_at(s, p) ==
  /\ p + 10 <= Len(s)
  /\ s[p] = "_"
  /\ s[p + 1] = "2"
  /\ s[p + 2] = "0"
  /\ IsDigit(s[p + 3])
  /\ IsDigit(s[p + 4])
  /\ s[p + 5] = "_"
  /\ Lower(SubSeq(s, p + 6, p + 9)) = << "t", "r", "i", "m" >>
  /\ IsDigit(s[p + 10])
  /\ (p + 10 = Len(s) \/ ~IsWordChar(s[p + 11]))

\* re_name.search(fname): (anio, tri) of the leftmost match, else (None, None)
parse_year_trim_from_name(fname) ==
  LET ps == { p \in 1..Len(fname) : re_name_at(fname, p) }
  IN  IF ps = {}
      THEN [anio |-> None, tri |-> None]
      ELSE LET p == SetMin(ps)
           IN  [anio |-> Some(DigitsToNat(SubSeq(fname, p + 1, p + 4))),
                tri  |-> Some(DigitVal(fname[p + 10]))]

RECURSIVE first_tag_in(_, _)
first_tag_in(up, tags) ==
  IF tags = << >> THEN None
  ELSE IF Contains(up, Head(tags)) THEN Some(Head(tags))
  ELSE first_tag_in(up, Tail(tags))

\* the module of a file name, or None
\* variant without the COE1/COE2 short forms: the five tags only
detect_module_tags_only(fname) == first_tag_in(Upper(fname), MODULES)

detect_module_from_filename(fname) ==
  LET up == Upper(fname)
      t  == first_tag_in(up, MODULES)
  IN  IF t # None THEN t
      ELSE IF Contains(up, << "C", "O", "E", "1" >>) THEN Some(tagCOE1T)
      ELSE IF Contains(up, << "C", "O", "E", "2" >>) THEN Some(tagCOE2T)
      ELSE None

(***************************************************************************)
(* A CSV file: its name and its content.  The content is the text the file *)
(* holds (a header and rows of cells, joined by the file's delimiter) and  *)
(* how its bytes are encoded:                                              *)
(*   enc   "utf-8" (the files of the model encoded so hold ASCII only) or  *)
(*         "latin-1" (U+00D1 is the single byte 0xD1);                     *)
(*   bom   the encoding sniff_encoding finds from the first bytes, or None;*)
(*   u16   whether the bytes happen to be a valid UTF-16 stream.           *)
(* A file of zero bytes has no header and no rows.                         *)
(***************************************************************************)
IsHigh(ch) == ch \in { "N~", "n~" }

header_line(c) == Join(c.hdr, c.delim)

row_lines(c) == [ i \in 1..Len(c.rows) |-> Join(c.rows[i], c.delim) ]

\* the lines of text of the file
file_lines(c) == IF c.hdr = << >> THEN << >> ELSE << header_line(c) >> \o row_lines(c)

HasHigh(c) == \E i \in 1..Len(file_lines(c)) : \E j \in 1..Len(file_lines(c)[i]) :
                 IsHigh(file_lines(c)[i][j])

Utf8Like(enc) == enc \in { "utf-8", "utf-8-sig" }

Latin(enc) == enc \in { "cp1252", "latin-1" }

\* bytes.decode(enc, errors="strict") succeeds
decode_strict_ok(c, enc) ==
  IF Utf8Like(enc) THEN ~(c.enc = "latin-1" /\ HasHigh(c))
  ELSE IF Latin(enc) THEN TRUE
  ELSE c.u16

\* one character of the file as decoded under enc (errors="replace" where the
\* strict decoding fails)
decode_char(c, enc, ch) ==
  CASE ~IsHigh(ch) -> ch
    [] IsHigh(ch) /\ c.enc = "latin-1" /\ Latin(enc) -> ch
    [] IsHigh(ch) /\ c.enc = "latin-1" /\ Utf8Like(enc) -> "<?>"

decode_line(c, enc, line) == [ j \in 1..Len(line) |-> decode_char(c, enc, line[j]) ]

\* the text of an 8-bit file read as UTF-16: no line or field of the file survives
garbled_lines == << << "<?>" >>, << "<?>" >> >>

\* the lines of the file decoded under enc
decode_lines(c, enc) ==
  IF Utf8Like(enc) \/ Latin(enc)
  THEN [ i \in 1..Len(file_lines(c)) |-> decode_line(c, enc, file_lines(c)[i]) ]
  ELSE IF file_lines(c) = << >> THEN << >> ELSE garbled_lines

sniff_encoding(c) == c.bom

Delimiters == << ",", ";", "|", "\t" >>

RECURSIVE most_frequent(_, _, _)
most_frequent(line, cands, best) ==
  IF cands = << >> THEN best
  ELSE most_frequent(line, Tail(cands),
         IF CountChar(line, Head(cands)) > CountChar(line, best) THEN Head(cands) ELSE best)

\* the delimiter of a decoded sample: the candidate that occurs most often in
\* the first line, the first candidate on a tie (what csv.Sniffer finds on the
\* regular files of the model, and the fallback when it raises)
sniff_delimiter(lines) ==
  LET first_line == IF lines = << >> THEN << >> ELSE lines[1]
  IN  most_frequent(first_line, Tail(Delimiters), Head(Delimiters))

\* pd.read_csv(..., sep=delim, nrows=0, dtype=str) of decoded lines: the header
read_header(lines, delim) ==
  IF lines = << >>
  THEN [ok |-> FALSE, cols |-> << >>]
  ELSE [ok |-> TRUE, cols |-> Split(lines[1], delim)]

\* pd.read_csv(path, sep=delim, nrows=0, encoding=enc) of the file itself
read_header_file(c, enc, delim) ==
  IF ~decode_strict_ok(c, enc)
  THEN [ok |-> FALSE, cols |-> << >>]
  ELSE read_header(decode_lines(c, enc), delim)

\* encodings_try of headers_only
encodings_try(c) ==
  sniff_encoding(c) \o
  << "utf-8", "utf-8-sig", "cp1252", "latin-1", "utf-16", "utf-16le", "utf-16be" >>

\* the last loop of headers_only: every encoding with every delimiter
RECURSIVE headers_combos(_, _, _)
headers_combos(c, encs, delims) ==
  IF encs = << >> THEN [ok |-> FALSE, cols |-> << >>, encoding |-> "", delimiter |-> ""]
  ELSE IF delims = << >> THEN headers_combos(c, Tail(encs), Delimiters)
  ELSE LET df0 == read_header_file(c, Head(encs), Head(delims))
       IN  IF df0.ok /\ Len(df0.cols) > 0
           THEN [ok |-> TRUE, cols |-> df0.cols,
                 encoding |-> Head(encs), delimiter |-> Head(delims)]
           ELSE headers_combos(c, encs, Tail(delims))

\* the first loop of headers_only: per encoding, the decoded sample and then
\* the file itself, under the sniffed delimiter
RECURSIVE headers_sniffed(_, _)
headers_sniffed(c, encs) ==
  IF encs = << >> THEN headers_combos(c, encodings_try(c), Delimiters)
  ELSE LET enc   == Head(encs)
           text  == decode_lines(c, enc)
           delim == sniff_delimiter(text)
           df0   == read_header(text, delim)
           df1   == read_header_file(c, enc, delim)
       IN  IF df0.ok /\ Len(df0.cols) > 0
           THEN [ok |-> TRUE, cols |-> df0.cols, encoding |-> enc, delimiter |-> delim]
           ELSE IF df1.ok /\ Len(df1.cols) > 0
           THEN [ok |-> TRUE, cols |-> df1.cols, encoding |-> enc, delimiter |-> delim]
           ELSE headers_sniffed(c, Tail(encs))

\* headers_only(path): (cols, encoding, delimiter), or ok = FALSE where it raises
\* variant that takes the first encoding's header as it comes, columns or not
headers_unchecked(c) ==
  LET enc   == Head(encodings_try(c))
      text  == decode_lines(c, enc)
      delim == sniff_delimiter(text)
  IN  [ok |-> TRUE, cols |-> read_header(text, delim).cols,
       encoding |-> enc, delimiter |-> delim]

headers_only(c) == headers_sniffed(c, encodings_try(c))

(***************************************************************************)
(* A DataFrame is [cols, rows]: the column names in order and, per row, a  *)
(* function from the column names to the cells.                            *)
(***************************************************************************)
\* pd.read_csv(..., sep=delim, dtype=str) of decoded lines.  A row with more
\* fields than the header raises ParserError; a short row is padded with NaN
\* (no row of the model has exactly one field more than the header, which
\* pandas reads as an index column).
read_csv(lines, delim) ==
  IF lines = << >>
  THEN [ok |-> FALSE, err |-> "EmptyDataError", df |-> [cols |-> << >>, rows |-> << >>]]
  ELSE LET cols      == Split(lines[1], delim)
           fields(i) == Split(lines[i + 1], delim)
           n         == Len(lines) - 1
       IN  IF \E i \in 1..n : Len(fields(i)) > Len(cols)
           THEN [ok |-> FALSE, err |-> "ParserError", df |-> [cols |-> << >>, rows |-> << >>]]
           ELSE [ok |-> TRUE, err |-> "",
                 df |-> [cols |-> cols,
                         rows |-> [ i \in 1..n |->
                                    [ col \in Range(cols) |->
                                      IF IndexOf(cols, col) <= Len(fields(i))
                                      THEN fields(i)[IndexOf(cols, col)]
                                      ELSE NA ] ]]]

\* pd.read_csv(path, sep=delim, dtype=str, encoding=enc) of the file itself, with
\* either engine
read_csv_file(c, enc, delim) ==
  IF ~decode_strict_ok(c, enc)
  THEN [ok |-> FALSE, err |-> "UnicodeDecodeError", df |-> [cols |-> << >>, rows |-> << >>]]
  ELSE read_csv(decode_lines(c, enc), delim)

\* stage 3 of read_full_csv_robust: the first alternate encoding that parses
RECURSIVE retry_encodings(_, _, _)
retry_encodings(c, delim, encs) ==
  IF encs = << >> THEN [ok |-> FALSE, df |-> [cols |-> << >>, rows |-> << >>]]
  ELSE LET r == read_csv_file(c, Head(encs), delim)
       IN  IF r.ok THEN [ok |-> TRUE, df |-> r.df]
           ELSE retry_encodings(c, delim, Tail(encs))

\* data.decode("latin-1", errors="replace") parsed from memory
read_lossy(c, delim) == read_csv(decode_lines(c, "latin-1"), delim)

AltEncodings == << "utf-8-sig", "utf-16", "utf-16le", "utf-16be", "cp1252", "latin-1" >>

\* read_full_csv_robust(path, enc, delim): the table and the stage that gave it,
\* or ok = FALSE where the exception leaves the function
read_full_csv_robust(c, enc, delim) ==
  LET s1 == read_csv_file(c, enc, delim)
      s2 == read_csv_file(c, enc, delim)
      s3 == retry_encodings(c, delim, AltEncodings)
      s4 == read_lossy(c, delim)
  IN  IF s1.ok THEN [ok |-> TRUE, stage |-> 1, df |-> s1.df]
      ELSE IF s2.ok THEN [ok |-> TRUE, stage |-> 2, df |-> s2.df]
      ELSE IF s2.err = "UnicodeDecodeError"
      THEN IF s3.ok THEN [ok |-> TRUE, stage |-> 3, df |-> s3.df]
           ELSE [ok |-> s4.ok, stage |-> 4, df |-> s4.df]
      ELSE [ok |-> s4.ok, stage |-> 4, df |-> s4.df]

\* what stage n of read_full_csv_robust gives when it is run
stage_outcome(c, enc, delim, n) ==
  CASE n = 1 -> [ok |-> read_csv_file(c, enc, delim).ok, df |-> read_csv_file(c, enc, delim).df]
    [] n = 2 -> [ok |-> read_csv_file(c, enc, delim).ok, df |-> read_csv_file(c, enc, delim).df]
    [] n = 3 -> retry_encodings(c, delim, AltEncodings)
    [] n = 4 -> [ok |-> read_lossy(c, delim).ok, df |-> read_lossy(c, delim).df]

\* variant that goes from a failed stage 1 to the lossy decoding
stages_tried_short(c, enc, delim) ==
  IF read_csv_file(c, enc, delim).ok THEN { 1 } ELSE { 1, 4 }

\* the stages read_full_csv_robust runs: the alternate encodings only under
\* "except UnicodeDecodeError" of stage 2, the lossy decoding under it when
\* no alternate encoding parses and under "except Exception" otherwise
stages_tried(c, enc, delim) ==
  LET s2 == read_csv_file(c, enc, delim)
  IN  IF s2.ok THEN { 1 }
      ELSE IF s2.err = "UnicodeDecodeError"
      THEN IF retry_encodings(c, delim, AltEncodings).ok THEN { 1, 2, 3 } ELSE { 1, 2, 3, 4 }
      ELSE { 1, 2, 4 }

\* find_col_ci(df, target): the first column equal to target in lower case
\* variant that compares the names as they are
find_col_exact(df, target) ==
  IF target \in Range(df.cols) THEN Some(target) ELSE None

find_col_ci(df, target) ==
  LET hits == { i \in 1..Len(df.cols) : Lower(df.cols[i]) = Lower(target) }
  IN  IF hits = {} THEN None ELSE Some(df.cols[SetMin(hits)])

\* Series.astype(str) of a text cell: NaN becomes "nan"
astype_str(cell) == IF cell = NA THEN << "n", "a", "n" >> ELSE cell

\* str.replace(r"\D", "", regex=True)
RECURSIVE only_digits(_)
only_digits(s) ==
  IF s = << >> THEN << >>
  ELSE IF IsDigit(Head(s)) THEN << Head(s) >> \o only_digits(Tail(s))
  ELSE only_digits(Tail(s))

\* the PER code of a cell as derive_year_trim_from_per reads it
per_code(cell) == ZFill(only_digits(astype_str(cell)), 3)

\* derive_year_trim_from_per(df): per row, (anio, tri)
derive_year_trim_from_per(df) ==
  LET per_col == find_col_ci(df, << "p", "e", "r" >>)
  IN  [ i \in 1..Len(df.rows) |->
        IF per_col = None
        THEN [anio |-> NA, tri |-> NA]
        ELSE LET per == per_code(df.rows[i][per_col[1]])
             IN  [anio |-> Some(2000 + DigitsToNat(SubSeq(per, 2, 3))),
                  tri  |-> Some(DigitVal(per[1]))] ]

\* variant that writes a missing year or quarter as the text <NA>
year_quarter_label_filled(anio, tri) ==
  (IF anio = NA THEN << "<", "N", "A", ">" >> ELSE IntToStr(anio[1])) \o << "T" >> \o
  (IF tri = NA THEN << "<", "N", "A", ">" >> ELSE IntToStr(tri[1]))

\* anio.astype("string") + "T" + trimestre.astype("string")
year_quarter_label(anio, tri) ==
  IF anio = NA \/ tri = NA THEN NA
  ELSE IntToStr(anio[1]) \o << "T" >> \o IntToStr(tri[1])

\* add_meta_cols(df, anio_from_name, tri_from_name); DataFrame.insert raises
\* ValueError when the column is already there
add_meta_cols(df, anio_from_name, tri_from_name) ==
  LET per_meta == derive_year_trim_from_per(df)
      meta(i)  == IF anio_from_name = None \/ tri_from_name = None
                  THEN per_meta[i]
                  ELSE [anio |-> anio_from_name, tri |-> tri_from_name]
  IN  IF \E j \in 1..Len(MetaCols) : MetaCols[j] \in Range(df.cols)
      THEN [ok |-> FALSE, df |-> df]
      ELSE [ok |-> TRUE,
            df |-> [cols |-> MetaCols \o df.cols,
                    rows |-> [ i \in 1..Len(df.rows) |->
                               [ col \in Range(MetaCols) \cup Range(df.cols) |->
                                 IF col = col_anio THEN meta(i).anio
                                 ELSE IF col = col_trimestre THEN meta(i).tri
                                 ELSE IF col = col_anio_trimestre
                                 THEN year_quarter_label(meta(i).anio, meta(i).tri)
                                 ELSE df.rows[i][col] ] ]]]

\* variant that adds the columns a file lacks and keeps the file's own order
conform_appended(df, canonical) ==
  LET lacking == SelectSeq(canonical, LAMBDA col : col \notin Range(df.cols))
  IN  [cols |-> df.cols \o lacking,
       rows |-> [ n \in 1..Len(df.rows) |->
                  [ col \in Range(canonical) \cup Range(df.cols) |->
                    IF col \in Range(df.cols) THEN df.rows[n][col] ELSE NA ] ]]

\* the columns a file lacks are added as pd.NA, then df.reindex(columns=final_cols)
conform(df, final_cols) ==
  [cols |-> final_cols,
   rows |-> [ i \in 1..Len(df.rows) |->
              [ col \in Range(final_cols) |->
                IF col \in Range(df.cols) THEN df.rows[i][col] ELSE NA ] ]]

\* the final casts of load_one: anio_trimestre is rebuilt from anio and trimestre
cast_meta(df) ==
  [cols |-> df.cols,
   rows |-> [ i \in 1..Len(df.rows) |->
              [ col \in Range(df.cols) |->
                IF col = col_anio_trimestre
                THEN year_quarter_label(df.rows[i][col_anio], df.rows[i][col_trimestre])
                ELSE df.rows[i][col] ] ]]

\* load_one of build_with_dask for one entry of file_info: the text read, the
\* table returned, or ok = FALSE where the task raises
load_one(c, fi, final_cols) ==
  LET r == read_full_csv_robust(c, fi.encoding, fi.delimiter)
      a == add_meta_cols(r.df, fi.anio, fi.tri)
  IN  IF ~r.ok THEN [ok |-> FALSE, stage |-> r.stage, raw |-> r.df, df |-> r.df]
      ELSE IF ~a.ok THEN [ok |-> FALSE, stage |-> r.stage, raw |-> r.df, df |-> r.df]
      ELSE [ok |-> TRUE, stage |-> r.stage, raw |-> r.df,
            df |-> cast_meta(conform(a.df, final_cols))]

\* sorted(S, key=str.lower): the sort is stable over the iteration order of the
\* set, which the hashes of the names decide, so names with equal keys come out
\* in any order
RECURSIVE sorted_lower(_)
sorted_lower(S) ==
  IF S = {} THEN { << >> }
  ELSE LET firsts == { x \in S : \A y \in S : ~StrLess(Lower(y), Lower(x)) }
       IN  UNION { { << x >> \o rest : rest \in sorted_lower(S \ {x}) } : x \in firsts }

\* final_cols of build_with_dask, given the sorted union
final_cols_of(union_cols) ==
  MetaCols \o SelectSeq(union_cols, LAMBDA col : col \notin Range(MetaCols))

\* the Arrow schema of a table of load_one: names and types
schema_of(df) ==
  [ j \in 1..Len(df.cols) |->
    [name |-> df.cols[j],
     type |-> IF df.cols[j] \in { col_anio, col_trimestre } THEN "int64" ELSE "string"] ]

\* a later partition as write_single_parquet_from_ddf appends it: aligned to the
\* writer's columns when its schema differs
align_to_writer(pdf, writer_schema) ==
  IF schema_of(pdf) # writer_schema
  THEN conform(pdf, [ j \in 1..Len(writer_schema) |-> writer_schema[j].name ])
  ELSE pdf

(***************************************************************************)
(* The input directory: up to MaxFiles files with distinct names, in the   *)
(* order of sorted(glob(...)).                                             *)
(***************************************************************************)
name_hogt == << "h", "o", "g", "t", "_", "2", "0", "2", "4", "_", "t", "r", "i", "m", "3", ".", "c", "s", "v" >>

name_hogt_csv == << "h", "o", "g", "t", "_", "2", "0", "2", "4", "_", "t", "r", "i", "m", "3", "_", "c", "s", "v", ".", "c", "s", "v" >>

name_sdemt == << "S", "D", "E", "M", "T", "1", "2", "4", ".", "c", "s", "v" >>

name_coe1 == << "c", "o", "e", "1", "_", "2", "0", "2", "3", "_", "T", "R", "I", "M", "1", ".", "c", "s", "v" >>

name_enoe == << "E", "N", "O", "E", "_", "2", "0", "2", "4", "_", "t", "r", "i", "m", "3", ".", "c", "s", "v" >>

name_two_tags == << "c", "o", "e", "2", "t", "_", "h", "o", "g", "t", ".", "c", "s", "v" >>

Names == { name_hogt, name_hogt_csv, name_sdemt, name_coe1, name_enoe, name_two_tags }

col_EDA == << "E", "D", "A" >>

col_PER == << "P", "E", "R" >>

col_per == << "p", "e", "r" >>

col_SEX == << "S", "E", "X" >>

col_ANO == << "A", "N~", "O" >>

\* a regular file
content_plain ==
  [enc |-> "utf-8", bom |-> None, u16 |-> FALSE, delim |-> ",",
   hdr |-> << col_EDA, col_PER >>,
   rows |-> << << << "3", "0" >>, << "3", "2", "4" >> >>, << << "4", "1" >>, << "1", "2", "4" >> >> >>]

\* another release: PER in lower case, one short and one empty period code
content_lower ==
  [enc |-> "utf-8", bom |-> None, u16 |-> FALSE, delim |-> ";",
   hdr |-> << col_per, col_SEX >>,
   rows |-> << << << "2", "4" >>, << "1" >> >>, << << >>, << "2" >> >> >>]

\* a Latin-1 file whose header holds U+00D1
content_latin ==
  [enc |-> "latin-1", bom |-> None, u16 |-> FALSE, delim |-> ",",
   hdr |-> << col_ANO, col_PER >>,
   rows |-> << << << "7" >>, << "4", "2", "3" >> >> >>]

\* a file of zero bytes
content_empty ==
  [enc |-> "utf-8", bom |-> None, u16 |-> FALSE, delim |-> ",",
   hdr |-> << >>, rows |-> << >>]

\* a file with a row of four fields under a header of two
content_bad_row ==
  [enc |-> "utf-8", bom |-> None, u16 |-> FALSE, delim |-> ",",
   hdr |-> << col_EDA, col_PER >>,
   rows |-> << << << "3", "0" >>, << "3", "2", "4" >> >>, << << "1" >>, << "2" >>, << "3" >>, << "4" >> >> >>]

\* a file that has a column anio of its own
content_own_anio ==
  [enc |-> "utf-8", bom |-> None, u16 |-> FALSE, delim |-> ",",
   hdr |-> << col_anio, col_EDA >>,
   rows |-> << << << "2", "0", "2", "4" >>, << "3", "0" >> >> >>]

\* a file with no period code
content_no_per ==
  [enc |-> "utf-8", bom |-> None, u16 |-> FALSE, delim |-> ",",
   hdr |-> << col_SEX >>,
   rows |-> << << << "1" >> >> >>]

Contents ==
  { content_plain, content_lower, content_latin, content_empty,
    content_bad_row, content_own_anio, content_no_per }

\* the sorted lists of at most n distinct names
RECURSIVE name_lists(_)
name_lists(n) ==
  IF n = 0 THEN { << >> }
  ELSE LET shorter == name_lists(n - 1)
       IN  shorter \cup
           UNION { { l \o << x >> : x \in { y \in Names :
                                            l = << >> \/ StrLess(l[Len(l)], y) } } :
                   l \in shorter }

\* the directories of the model
Directories ==
  UNION { { [ j \in 1..Len(l) |-> [name |-> l[j], content |-> cs[j]] ] :
            cs \in [1..Len(l) -> Contents] } :
          l \in name_lists(MaxFiles) \ { << >> } }

(***************************************************************************)
(* apply_enoe_labels.py: the dictionary consolidator and the lookup.       *)
(* A mapping (a Python dict of str to str) is a function from its keys.    *)
(***************************************************************************)
\* TABLA_BASE_RE = r"^([A-Z0-9]+?)(\d)(\d{2})$"
TABLA_BASE_RE(s) ==
  /\ Len(s) >= 4
  /\ \A j \in 1..Len(s) : IsUpperAlnum(s[j])
  /\ \A j \in (Len(s) - 2)..Len(s) : IsDigit(s[j])

\* the canonical base of a prefix
base_canon(base_pref) ==
  CASE base_pref \in { << "C", "O", "E", "1" >>, tagCOE1T } -> tagCOE1T
    [] base_pref \in { << "C", "O", "E", "2" >>, tagCOE2T } -> tagCOE2T
    [] base_pref \in { << "S", "D", "E", "M" >>, tagSDEMT } -> tagSDEMT
    [] base_pref \in { << "H", "O", "G" >>, tagHOGT } -> tagHOGT
    [] base_pref \in { << "V", "I", "V" >>, tagVIVT } -> tagVIVT
    [] OTHER -> base_pref

\* parse_tabla_base(tabla): (base, tri, yy)
parse_tabla_base(tabla) ==
  LET s == Upper(Strip(tabla))
  IN  IF TABLA_BASE_RE(s)
      THEN [base |-> base_canon(SubSeq(s, 1, Len(s) - 3)),
            tri  |-> DigitVal(s[Len(s) - 2]),
            yy   |-> DigitsToNat(SubSeq(s, Len(s) - 1, Len(s)))]
      ELSE [base |-> SelectSeq(s, IsUpperAlnum), tri |-> 0, yy |-> 0]

\* variant that adds the quarter to the year
year_plus_quarter(tri, yy) == (2000 + yy) + tri

year_quarter_rank(tri, yy) == (2000 + yy) * 10 + tri

\* normalize_code_keys(code): the keys a code is stored under
normalize_code_keys(code) ==
  LET s == Strip(code)
  IN  IF s = << >> THEN {}
      ELSE { s }
           \cup (IF ~IsIntNumeral(s) THEN { Upper(s) } ELSE {})
           \cup (IF IsIntNumeral(s) THEN { IntToStr(StrToInt(s)) } ELSE {})
           \cup (IF IsIntNumeral(s) /\ 0 <= StrToInt(s) /\ StrToInt(s) < 100
                 THEN { TwoDigits(StrToInt(s)) } ELSE {})

\* the hash seed of the process, which orders its sets of str
VARIABLE hash_seed

\* variant whose winner on a key collision follows the hash seed of the process
dict_update_by_hash(merged, mp) ==
  [ key \in DOMAIN merged \cup DOMAIN mp |->
    IF key \in DOMAIN mp /\ (hash_seed = 0 \/ key \notin DOMAIN merged)
    THEN mp[key] ELSE merged[key] ]

\* dict.update: mp written over merged
dict_update(merged, mp) ==
  [ key \in DOMAIN merged \cup DOMAIN mp |->
    IF key \in DOMAIN mp THEN mp[key] ELSE merged[key] ]

empty_dict == [ key \in {} |-> << >> ]

\* local_map of one dictionary entry: its categories in order, each code under
\* all its keys; a category with an empty code or label is passed over
RECURSIVE local_map_of(_)
local_map_of(cats) ==
  IF cats = << >> THEN empty_dict
  ELSE LET c     == cats[Len(cats)]
           code  == Strip(c.valor)
           label == Strip(c.categoria)
           before == local_map_of(SubSeq(cats, 1, Len(cats) - 1))
       IN  IF code = << >> \/ label = << >> THEN before
           ELSE dict_update(before, [ key \in normalize_code_keys(code) |-> label ])

\* the (rank, local_map) pair build_base_var_mappings appends for an entry
ranked_map(r) ==
  LET t == parse_tabla_base(IF r.tabla = << >> THEN << "B", "A", "S", "E" >> ELSE r.tabla)
  IN  [base |-> t.base, variable |-> r.variable,
       rank |-> year_quarter_rank(t.tri, t.yy),
       map  |-> local_map_of(r.categorias)]

\* variant that leaves the list in the order of the corpus
unsorted(lst) == lst

\* sorted(lst, key=rank): stable, the oldest release first
RECURSIVE sorted_by_rank(_)
sorted_by_rank(lst) ==
  IF lst = << >> THEN << >>
  ELSE LET init == sorted_by_rank(SubSeq(lst, 1, Len(lst) - 1))
           x    == lst[Len(lst)]
           keep == Cardinality({ j \in 1..Len(init) : init[j].rank <= x.rank })
       IN  SubSeq(init, 1, keep) \o << x >> \o SubSeq(init, keep + 1, Len(init))

\* merged.update(mp) over a sorted list
RECURSIVE merge_all(_)
merge_all(lst) ==
  IF lst = << >> THEN empty_dict
  ELSE dict_update(merge_all(SubSeq(lst, 1, Len(lst) - 1)), lst[Len(lst)].map)

\* build_base_var_mappings(rows): base -> variable -> mapping
build_base_var_mappings(rows) ==
  LET lst == [ j \in 1..Len(rows) |-> ranked_map(rows[j]) ]
      bases == { lst[j].base : j \in 1..Len(lst) }
      variables(b) == { lst[j].variable : j \in { n \in 1..Len(lst) : lst[n].base = b } }
      group(b, v) == SelectSeq(lst, LAMBDA e : e.base = b /\ e.variable = v)
  IN  [ b \in bases |-> [ v \in variables(b) |-> merge_all(sorted_by_rank(group(b, v))) ] ]

\* a list without its repeated elements, the first occurrence kept
RECURSIVE dedup(_)
dedup(lst) ==
  IF lst = << >> THEN << >>
  ELSE LET init == dedup(SubSeq(lst, 1, Len(lst) - 1))
       IN  IF lst[Len(lst)] \in Range(init) THEN init ELSE Append(init, lst[Len(lst)])

\* variant that tries the trimmed value only
trimmed_only(v) == << Strip(v) >>

\* norm_variants(v) of _make_lookup_udf, for a value that is not None
norm_variants(v) ==
  LET s == Strip(v)
  IN  dedup(<< s >>
            \o (IF ~IsIntNumeral(s) THEN << Upper(s) >>
                ELSE << IntToStr(StrToInt(s)) >>
                     \o (IF 0 <= StrToInt(s) /\ StrToInt(s) < 100
                         THEN << TwoDigits(StrToInt(s)) >> ELSE << >>)))

\* fn(v) of _make_lookup_udf(mapping): the label of the first variant that is a
\* key, or None
lookup_fn(mapping, v) ==
  LET variants == norm_variants(v)
      hits     == { j \in 1..Len(variants) : variants[j] \in DOMAIN mapping }
  IN  IF hits = {} THEN None ELSE Some(mapping[variants[SetMin(hits)]])

(***************************************************************************)
(* The dictionary corpus: up to MaxEntries entries, as load_all_json_dicts *)
(* returns them, each with one category or none.                           *)
(***************************************************************************)
var_SEX == << "S", "E", "X" >>

Tablas == { << "H", "O", "G", "T", "2", "2", "2" >>,
            << "H", "O", "G", "T", "4", "2", "4" >>,
            << "S", "D", "E", "M", "T", "4", "2", "4" >> }

Codes == { << "0", "1" >>, << "0", "0", "1" >>, << "a" >>, << "A" >> }

label_formal == << "F", "o", "r", "m", "a", "l" >>

label_informal == << "I", "n", "f", "o", "r", "m", "a", "l" >>

Labels == { label_formal, label_informal }

Categorias ==
  { << >> } \cup { << [valor |-> code, categoria |-> label] >> : code \in Codes, label \in Labels }

Entries == [tabla : Tablas, variable : { var_SEX }, categorias : Categorias]

RECURSIVE corpora(_)
corpora(n) ==
  IF n = 0 THEN { << >> }
  ELSE corpora(n - 1) \cup
       { Append(rs, e) : rs \in { x \in corpora(n - 1) : Len(x) = n - 1 }, e \in Entries }

\* the columns of raw values the lookup is applied to
Columns ==
  { << << "1" >>, << "0", "1" >>, << " ", "1", " " >>, << "0", "0", "1" >>, << "2" >> >>,
    << << "a" >>, << "A" >>, << " ", "a" >> >> }

(***************************************************************************)
(* apply_enoe_labels.py, the whole run: the documents of the corpus, the   *)
(* tables of the input directory and apply_labels_to_parquet.              *)
(***************************************************************************)
MaxDocs == 2

var_sex == << "s", "e", "x" >>

tabla_HOGT424 == << "H", "O", "G", "T", "4", "2", "4" >>

tabla_SDEMT424 == << "S", "D", "E", "M", "T", "4", "2", "4" >>

cat_formal == [valor |-> << "1" >>, categoria |-> label_formal]

cat_informal == [valor |-> << "0", "1" >>, categoria |-> label_informal]

\* an item of a JSON list that is not an object (a string, a number, null)
json_scalar == [scalar |-> << "1" >>]

is_dict(x) == "scalar" \notin DOMAIN x

\* the entries the documents of the model hold
RawEntries ==
  [tabla : { tabla_HOGT424 }, variable : { var_SEX, var_sex },
   categorias : { << >>, << cat_formal >>, << cat_informal >>, << json_scalar >> }]
  \cup { [tabla |-> tabla_SDEMT424, variable |-> var_sex, categorias |-> << cat_formal >>],
         [tabla |-> tabla_HOGT424, variable |-> col_EDA, categorias |-> << cat_formal >>] }

\* a document: a file json.load cannot read, a JSON list of items, or a JSON
\* object whose values are lists (items: those lists, one after the other)
Documents ==
  { [kind |-> "unreadable", items |-> << >>],
    [kind |-> "list", items |-> << json_scalar >>],
    [kind |-> "dict", items |-> << [tabla |-> tabla_HOGT424, variable |-> var_SEX,
                                    categorias |-> << cat_formal >>] >>] }
  \cup { [kind |-> "list", items |-> << e >>] : e \in RawEntries }

RECURSIVE doc_lists(_)
doc_lists(n) ==
  IF n = 0 THEN { << >> }
  ELSE doc_lists(n - 1) \cup
       { Append(ds, d) : ds \in { x \in doc_lists(n - 1) : Len(x) = n - 1 }, d \in Documents }

\* load_all_json_dicts: rows, the items of the readable documents in order
RECURSIVE json_rows(_)
json_rows(ds) ==
  IF ds = << >> THEN << >>
  ELSE json_rows(SubSeq(ds, 1, Len(ds) - 1)) \o
       (IF ds[Len(ds)].kind = "unreadable" THEN << >> ELSE ds[Len(ds)].items)

\* load_all_json_dicts(json_root): no file at all raises; a document that cannot
\* be read is warned about; an item that is not an object is passed over
load_all_json_dicts(ds) ==
  LET rows == SelectSeq(json_rows(ds), is_dict)
  IN  [ok     |-> ds # << >>,
       warned |-> { j \in 1..Len(ds) : ds[j].kind = "unreadable" },
       out    |-> [ j \in 1..Len(rows) |->
                    [tabla |-> Strip(rows[j].tabla), variable |-> Strip(rows[j].variable),
                     categorias |-> rows[j].categorias] ]]

\* build_base_var_mappings calls c.get on every item of categorias: an item
\* that is not an object raises AttributeError
cats_are_dicts(rows) ==
  \A j \in 1..Len(rows) : \A n \in 1..Len(rows[j].categorias) : is_dict(rows[j].categorias[n])

label_suffix == << "_", "l", "a", "b", "e", "l" >>

name_sdemt_labeled == << "e", "n", "o", "e", "_", "m", "a", "s", "t", "e", "r", "_", "s", "d", "e", "m", "t", "_", "l", "a", "b", "e", "l", "e", "d", ".", "p", "a", "r", "q", "u", "e", "t" >>

name_hogt_labeled == << "e", "n", "o", "e", "_", "m", "a", "s", "t", "e", "r", "_", "h", "o", "g", "t", "_", "l", "a", "b", "e", "l", "e", "d", ".", "p", "a", "r", "q", "u", "e", "t" >>

name_vivt_labeled == << "e", "n", "o", "e", "_", "m", "a", "s", "t", "e", "r", "_", "v", "i", "v", "t", "_", "l", "a", "b", "e", "l", "e", "d", ".", "p", "a", "r", "q", "u", "e", "t" >>

\* BASE_FROM_PARQUET_RE searched in the base name, letter case ignored
BASE_FROM_PARQUET_RE(name, tag) ==
  LET tail == << "e", "n", "o", "e", "_", "m", "a", "s", "t", "e", "r", "_" >> \o Lower(tag) \o << "_", "l", "a", "b", "e", "l", "e", "d", ".", "p", "a", "r", "q", "u", "e", "t" >>
  IN  /\ Len(name) >= Len(tail)
      /\ Lower(SubSeq(name, Len(name) - Len(tail) + 1, Len(name))) = tail

\* base_from_parquet_path(path): None where it raises ValueError
base_from_parquet_path(name) ==
  IF \E j \in 1..Len(MODULES) : BASE_FROM_PARQUET_RE(name, MODULES[j])
  THEN Some(MODULES[SetMin({ j \in 1..Len(MODULES) : BASE_FROM_PARQUET_RE(name, MODULES[j]) })])
  ELSE None

\* the tables of the input directory
col_sex == var_sex

col_sex_label == col_sex \o label_suffix

table_sdemt ==
  [name |-> name_sdemt_labeled,
   cols |-> << col_sex, col_sex_label >>,
   rows |-> << [ c \in { col_sex, col_sex_label } |->
                 IF c = col_sex THEN << "1" >> ELSE << "o", "l", "d" >> ] >>]

table_hogt ==
  [name |-> name_hogt_labeled,
   cols |-> << col_SEX, col_EDA >>,
   rows |-> << [ c \in { col_SEX, col_EDA } |-> IF c = col_SEX THEN << "1" >> ELSE << "3", "0" >> ],
               [ c \in { col_SEX, col_EDA } |-> IF c = col_SEX THEN << " ", "0", "1" >> ELSE << "4", "1" >> ],
               [ c \in { col_SEX, col_EDA } |-> IF c = col_SEX THEN << "2" >> ELSE NA ],
               [ c \in { col_SEX, col_EDA } |-> IF c = col_SEX THEN NA ELSE << "1" >> ] >>]

table_vivt ==
  [name |-> name_vivt_labeled,
   cols |-> << col_SEX >>,
   rows |-> << [ c \in { col_SEX } |-> << "1" >> ] >>]

\* discover_parquets: the files of PARQUET_PATTERNS that exist, in its order
InputDirs == { << table_sdemt, table_hogt, table_vivt >>, << >> }

SetMax(S) == CHOOSE x \in S : \A y \in S : y <= x

\* col_upper_to_orig[up]: the last column whose upper-cased name is up
col_upper_to_orig(cols, up) == cols[SetMax({ j \in 1..Len(cols) : Upper(cols[j]) = up })]

cols_upper(cols) == { Upper(cols[j]) : j \in 1..Len(cols) }

\* sorted(orig_cols, key=str.lower) over a list: stable
RECURSIVE sorted_cols(_)
sorted_cols(cols) ==
  IF cols = << >> THEN << >>
  ELSE LET init == sorted_cols(SubSeq(cols, 1, Len(cols) - 1))
           x    == cols[Len(cols)]
           keep == Cardinality({ j \in 1..Len(init) : ~StrLess(Lower(x), Lower(init[j])) })
       IN  SubSeq(init, 1, keep) \o << x >> \o SubSeq(init, keep + 1, Len(init))

\* var_maps.items() of a base: the variables in the order of their first entry
\* in rows, each with its mapping
var_maps_items(rows, maps, base) ==
  IF base \notin DOMAIN maps THEN << >>
  ELSE LET of_base(r) ==
             parse_tabla_base(IF r.tabla = << >> THEN << "B", "A", "S", "E" >> ELSE r.tabla).base = base
           mine == SelectSeq(rows, of_base)
           names == dedup([ j \in 1..Len(mine) |-> mine[j].variable ])
       IN  [ j \in 1..Len(names) |-> [var_json |-> names[j], mapping |-> maps[base][names[j]]] ]

\* the loop over var_maps.items(): the label expressions, in order
label_exprs(cols, items) ==
  LET hit(e) == Upper(e.var_json) \in cols_upper(cols) /\ DOMAIN e.mapping # {}
      hits   == SelectSeq(items, hit)
  IN  [ j \in 1..Len(hits) |->
        [v_up |-> Upper(hits[j].var_json),
         parquet_col |-> col_upper_to_orig(cols, Upper(hits[j].var_json)),
         alias |-> col_upper_to_orig(cols, Upper(hits[j].var_json)) \o label_suffix,
         mapping |-> hits[j].mapping] ]

missing_in_parquet(cols, items) ==
  LET miss(e) == ~(Upper(e.var_json) \in cols_upper(cols) /\ DOMAIN e.mapping # {})
      ms      == SelectSeq(items, miss)
  IN  [ j \in 1..Len(ms) |-> ms[j].var_json ]

\* map_elements(udf, return_dtype=pl.Utf8) on one cell: a null is not passed to
\* the function and stays null
map_element(mapping, cell) ==
  IF cell = NA THEN NA
  ELSE IF lookup_fn(mapping, cell) = None THEN NA ELSE lookup_fn(mapping, cell)[1]

\* lf.with_columns(exprs): every expression reads the input table; an alias
\* that names a column of the table takes its place, another is appended
RECURSIVE with_columns(_, _, _)
with_columns(df, exprs, n) ==
  IF n = 0 THEN df
  ELSE LET before == with_columns(df, exprs, n - 1)
           e      == exprs[n]
           cols   == IF e.alias \in Range(before.cols) THEN before.cols
                     ELSE Append(before.cols, e.alias)
       IN  [cols |-> cols,
            rows |-> [ r \in 1..Len(df.rows) |->
                       [ c \in Range(cols) |->
                         IF c = e.alias THEN map_element(e.mapping, df.rows[r][e.parquet_col])
                         ELSE before.rows[r][c] ] ]]

\* two expressions with one output name: polars raises DuplicateError
duplicate_alias(exprs) ==
  \E a, b \in 1..Len(exprs) : a # b /\ exprs[a].alias = exprs[b].alias

\* list(S) of a set of str: its order follows the hashes, which the seed of the
\* process decides; two orders stand for them
RECURSIVE set_order(_, _)
set_order(S, seed) ==
  IF S = {} THEN << >>
  ELSE LET x == IF seed = 0
                THEN CHOOSE a \in S : \A b \in S : a = b \/ StrLess(a, b)
                ELSE CHOOSE a \in S : \A b \in S : a = b \/ StrLess(b, a)
       IN  << x >> \o set_order(S \ { x }, seed)

\* the scaled-down sizes of the diagnostic: the rows read back
\* (sample_rows_diag), the unique raw values kept (head(50)), the unmapped
\* values listed (10) and the mapping keys listed ([:10])
sample_rows_diag == 3

MaxUniqueValues == 2

MaxUnmappedSamples == 1

MaxKeySamples == 2

\* lst[:n]
head(lst, n) == SubSeq(lst, 1, IF Len(lst) < n THEN Len(lst) ELSE n)

\* the detail of the mapped columns whose labels are all null in the first
\* n_rows rows: the unique raw values of those rows (unique() keeps no order:
\* the two orders of set_order stand for it), those of them no variant of
\* which is a key, and keys of the mapping
null_detail(df, labeled_df, exprs, seed, n_rows) ==
  LET sample      == 1..(IF Len(df.rows) < n_rows THEN Len(df.rows) ELSE n_rows)
      all_null(e) == \A r \in sample : labeled_df.rows[r][e.alias] = NA
      nulls       == SelectSeq(exprs, all_null)
      uniq_vals(e) ==
        head(set_order({ df.rows[r][e.parquet_col] : r \in sample } \ { NA }, seed),
             MaxUniqueValues)
      unmapped(e) ==
        LET none(u) == \A x \in Range(norm_variants(u)) : x \notin DOMAIN e.mapping
        IN  head(SelectSeq(uniq_vals(e), none), MaxUnmappedSamples)
  IN  [ j \in 1..Len(nulls) |->
        [var_json |-> nulls[j].v_up,
         parquet_col |-> nulls[j].parquet_col,
         sample_unmapped_codes |-> unmapped(nulls[j]),
         sample_mapping_keys |->
           head(set_order(DOMAIN nulls[j].mapping, seed), MaxKeySamples)] ]

\* variant that looks at every row of the output
label_all_null_detail_whole(df, labeled_df, exprs, seed) ==
  null_detail(df, labeled_df, exprs, seed, Len(df.rows))

\* label_all_null_detail: computed on the first sample_rows_diag rows
label_all_null_detail(df, labeled_df, exprs, seed) ==
  null_detail(df, labeled_df, exprs, seed, sample_rows_diag)

no_output == [exists |-> FALSE, run |-> 0, cols |-> << >>, rows |-> << >>]

no_text == [exists |-> FALSE, lines |-> << >>]

no_diag == [exists |-> FALSE, missing_in_parquet |-> << >>, label_all_null_detail |-> << >>,
            parquet_columns |-> << >>]

\* apply_labels_to_parquet(parquet_path, base_maps, out_path): the files it
\* leaves, and whether it raises
apply_labels_to_parquet(t, rows, maps, seed, run_no) ==
  LET base  == base_from_parquet_path(t.name)
      items == var_maps_items(rows, maps, base[1])
      exprs == label_exprs(t.cols, items)
      lf    == with_columns(t, exprs, Len(exprs))
      txt   == [exists |-> TRUE, lines |-> sorted_cols(t.cols)]
  IN  IF base = None
      THEN [raised |-> TRUE, out |-> no_output, columns |-> no_text, diag |-> no_diag]
      ELSE IF items = << >>
      THEN [raised |-> FALSE,
            out |-> [exists |-> TRUE, run |-> run_no, cols |-> t.cols, rows |-> t.rows],
            columns |-> no_text, diag |-> no_diag]
      ELSE IF duplicate_alias(exprs)
      THEN [raised |-> TRUE, out |-> no_output, columns |-> txt, diag |-> no_diag]
      ELSE [raised |-> FALSE,
            out |-> [exists |-> TRUE, run |-> run_no, cols |-> lf.cols, rows |-> lf.rows],
            columns |-> txt,
            diag |-> [exists |-> TRUE,
                      missing_in_parquet |-> missing_in_parquet(t.cols, items),
                      label_all_null_detail |-> label_all_null_detail(t, lf, exprs, seed),
                      parquet_columns |-> sorted_cols(t.cols)]]

(***************************************************************************)
(* The run of parquet.py: pass1 over the sorted files, then                *)
(* build_with_dask module by module.                                       *)
(***************************************************************************)
VARIABLES
  files,            \* csv_files: the directory, [name, content] per file
  pc,               \* "pass1", "module", "write", "done" or "raised"
  i,                \* pass1: the index of the next file
  info,             \* pass1: the list of per-file dicts
  module_to_union,  \* pass1: module -> set of column names
  module_to_files,  \* pass1: module -> list of paths
  skipped,          \* files logged as "No se infiere modulo"
  failed,           \* files logged as "Headers fallaron"
  m,                \* build_with_dask: the index of the module in MODULES
  final_cols,       \* build_with_dask: the schema of the current module
  parts,            \* the delayed frames of the current module (entries of info)
  k,                \* write_single_parquet_from_ddf: the next partition
  out,              \* module -> the Parquet file at out_path
  loaded,           \* the partitions computed so far, with the text they read
  nrows,            \* module -> the row count logged after the write
  coverage,         \* module -> the rows of the coverage report
  dict_rows,        \* the entries load_all_json_dicts returned
  dpc,              \* "idle", "docs", "rows", "built", "applied", "done" or "raised"
  base_maps,        \* the result of build_base_var_mappings
  applied,          \* the last lookup: base, variable, column and labels
  docs,             \* the documents find_all_json_files lists
  warned,           \* the documents logged as "No pude leer"
  run,              \* 0 at rest, 1 in the first run of main, 2 in the second
  in_dir,           \* the tables discover_parquets finds
  tix,              \* main: the index of the next table
  labeled,          \* table -> the file at out_path
  columns_txt,      \* table -> the "__columns.txt" file
  diag_json,        \* table -> the "__diagnostic.json" file
  first_labeled,    \* the files the first run left at the out_paths
  wparts,           \* write_single_parquet_from_ddf: the partitions of ddf
  wpc,              \* "idle", "start", "loop", "computed", "done" or "raised"
  wk,               \* the number of the partition the loop is at
  locals,           \* first_df, table, pdf, tbl: the partition each name is bound to
  heap,             \* the partitions that are materialized and referenced
  out_file,         \* the Parquet file at out_path
  old_file,         \* the file an earlier run left at out_path
  catalog,          \* label_ent_mun.py: the frame read from CATALOGO_PATH
  gpc,              \* "idle", "start", "loop", "done" or "raised"
  gix,              \* the index of the next path of PARQUETS_IN
  parquets_in,      \* module -> the table at its path of PARQUETS_IN, if any
  ent_df,           \* read_catalog: the entities
  muni_df,          \* read_catalog: the municipalities
  geo_out,          \* module -> the labeled file in OUT_DIR
  tablas,           \* two table names of dictionary entries
  parsed,           \* their (base, tri, yy) and rank, once computed
  tpc,              \* "idle", "names" or "parsed"
  load_in,          \* read_full_csv_robust alone: the file, enc and delim
  load_out,         \* the stages it tried and what it returned
  lpc               \* "idle", "call", "returned" or "raised"

pvars == << files, pc, i, info, module_to_union, module_to_files, skipped, failed,
            m, final_cols, parts, k, out, loaded, nrows, coverage >>

dvars == << dict_rows, dpc, base_maps, applied >>

avars == << docs, warned, hash_seed, run, in_dir, tix, labeled, columns_txt, diag_json,
            first_labeled >>

wvars == << wparts, wpc, wk, locals, heap, out_file, old_file >>

gvars == << catalog, gpc, gix, parquets_in, ent_df, muni_df, geo_out >>

\* the variables of the other scripts
tvars == << tablas, parsed, tpc >>

lvars == << load_in, load_out, lpc >>

ovars == << wvars, gvars, tvars, lvars >>

\* the variables neither parquet.py nor the dictionary runs touch
xvars == << avars, ovars >>

vars == << pvars, dvars, xvars >>

TableNames == { name_sdemt_labeled, name_hogt_labeled, name_vivt_labeled }

\* the labelling run at rest
ApplyIdle ==
  /\ docs = << >>
  /\ warned = {}
  /\ hash_seed = 0
  /\ run = 0
  /\ in_dir = << >>
  /\ tix = 1
  /\ labeled = [ n \in TableNames |-> no_output ]
  /\ columns_txt = [ n \in TableNames |-> no_text ]
  /\ diag_json = [ n \in TableNames |-> no_diag ]
  /\ first_labeled = [ n \in TableNames |-> no_output ]

no_locals == [first_df |-> 0, table |-> 0, pdf |-> 0, tbl |-> 0]

no_file == [exists |-> FALSE, closed |-> FALSE, schema |-> << >>, rows |-> << >>]

\* no call of write_single_parquet_from_ddf under way
WriterIdle ==
  /\ wparts = << >>
  /\ wpc = "idle"
  /\ wk = 1
  /\ locals = no_locals
  /\ heap = {}
  /\ out_file = no_file
  /\ old_file = no_file

no_table == [exists |-> FALSE, cols |-> << >>, rows |-> << >>]

\* label_ent_mun.py not running
GeoIdle ==
  /\ catalog = no_table
  /\ gpc = "idle"
  /\ gix = 1
  /\ parquets_in = [ t \in Range(MODULES) |-> None ]
  /\ ent_df = << >>
  /\ muni_df = << >>
  /\ geo_out = [ t \in Range(MODULES) |-> no_table ]

\* no table name being parsed
ParseIdle ==
  /\ tablas = << >>
  /\ parsed = << >>
  /\ tpc = "idle"

\* no call of read_full_csv_robust on its own
LoadIdle ==
  /\ load_in = << >>
  /\ load_out = << >>
  /\ lpc = "idle"

OtherIdle == WriterIdle /\ GeoIdle /\ ParseIdle /\ LoadIdle

ExtIdle == ApplyIdle /\ OtherIdle

no_lookup == [base |-> << >>, variable |-> << >>, column |-> << >>, labels |-> << >>]

\* the dictionary side at rest
DictIdle ==
  /\ dict_rows = << >>
  /\ dpc = "idle"
  /\ base_maps = << >>
  /\ applied = no_lookup

Tags == Range(MODULES)

Init ==
  /\ files \in Directories
  /\ pc = "pass1"
  /\ i = 1
  /\ info = << >>
  /\ module_to_union = [ t \in Tags |-> {} ]
  /\ module_to_files = [ t \in Tags |-> << >> ]
  /\ skipped = << >>
  /\ failed = << >>
  /\ m = 1
  /\ final_cols = << >>
  /\ parts = << >>
  /\ k = 1
  /\ out = [ t \in Tags |-> no_file ]
  /\ loaded = << >>
  /\ nrows = [ t \in Tags |-> None ]
  /\ coverage = [ t \in Tags |-> << >> ]
  /\ DictIdle
  /\ ExtIdle

\* the entry of info pass1 appends for file number p
file_info(p, mod, h) ==
  [path |-> p, mod |-> mod,
   anio |-> parse_year_trim_from_name(files[p].name).anio,
   tri |-> parse_year_trim_from_name(files[p].name).tri,
   encoding |-> h.encoding, delimiter |-> h.delimiter, cols |-> h.cols]

\* pass1: one turn of the loop over csv_paths
Pass1File ==
  /\ pc = "pass1"
  /\ i <= Len(files)
  /\ LET mod == detect_module_from_filename(files[i].name)
         h   == headers_only(files[i].content)
     IN  IF mod = None
         THEN /\ skipped' = Append(skipped, i)
              /\ UNCHANGED << info, module_to_union, module_to_files, failed >>
         ELSE IF ~h.ok
         THEN /\ failed' = Append(failed, i)
              /\ UNCHANGED << info, module_to_union, module_to_files, skipped >>
         ELSE /\ info' = Append(info, file_info(i, mod[1], h))
              /\ module_to_union' =
                   [module_to_union EXCEPT ![mod[1]] = @ \cup Range(h.cols)]
              /\ module_to_files' = [module_to_files EXCEPT ![mod[1]] = Append(@, i)]
              /\ UNCHANGED << skipped, failed >>
  /\ i' = i + 1
  /\ UNCHANGED << files, pc, m, final_cols, parts, k, out, loaded, nrows, coverage >>
  /\ UNCHANGED << dvars, xvars >>

\* pass1 returns and build_with_dask starts
Pass1Return ==
  /\ pc = "pass1"
  /\ i > Len(files)
  /\ pc' = "module"
  /\ UNCHANGED << files, i, info, module_to_union, module_to_files, skipped, failed,
                  m, final_cols, parts, k, out, loaded, nrows, coverage >>
  /\ UNCHANGED << dvars, xvars >>

files_mod(mod) == SelectSeq(info, LAMBDA fi : fi.mod = mod)

\* build_with_dask: a module with no file is passed over
SkipModule ==
  /\ pc = "module"
  /\ m <= Len(MODULES)
  /\ files_mod(MODULES[m]) = << >>
  /\ m' = m + 1
  /\ UNCHANGED << files, pc, i, info, module_to_union, module_to_files, skipped, failed,
                  final_cols, parts, k, out, loaded, nrows, coverage >>
  /\ UNCHANGED << dvars, xvars >>

\* build_with_dask: the schema and the delayed frames of the next module
BeginModule ==
  /\ pc = "module"
  /\ m <= Len(MODULES)
  /\ files_mod(MODULES[m]) # << >>
  /\ \E union_cols \in sorted_lower(module_to_union[MODULES[m]]) :
        final_cols' = final_cols_of(union_cols)
  /\ parts' = files_mod(MODULES[m])
  /\ k' = 1
  /\ pc' = "write"
  /\ UNCHANGED << files, i, info, module_to_union, module_to_files, skipped, failed,
                  m, out, loaded, nrows, coverage >>
  /\ UNCHANGED << dvars, xvars >>

\* variant that opens a ParquetWriter for every partition
write_table_anew(file, n, df) ==
  [exists |-> TRUE, closed |-> FALSE, schema |-> schema_of(df), rows |-> df.rows]

\* the file at out_path after the table of partition number n is written: the
\* first partition opens the ParquetWriter, which creates the file anew
write_table(file, n, df) ==
  IF n = 1
  THEN [exists |-> TRUE, closed |-> FALSE, schema |-> schema_of(df), rows |-> df.rows]
  ELSE [file EXCEPT !.rows = @ \o align_to_writer(df, file.schema).rows]

\* write_single_parquet_from_ddf: compute one partition and append it; an
\* exception of the task leaves build_with_dask and ends the run
WritePart ==
  /\ pc = "write"
  /\ k <= Len(parts)
  /\ LET fi == parts[k]
         r  == load_one(files[fi.path].content, fi, final_cols)
     IN  IF r.ok
         THEN /\ out' = [out EXCEPT ![MODULES[m]] = write_table(@, k, r.df)]
              /\ loaded' = Append(loaded, [path |-> fi.path, mod |-> fi.mod,
                                           stage |-> r.stage, raw |-> r.raw, df |-> r.df])
              /\ k' = k + 1
              /\ pc' = pc
         ELSE /\ pc' = "raised"
              /\ UNCHANGED << out, loaded, k >>
  /\ UNCHANGED << files, i, info, module_to_union, module_to_files, skipped, failed,
                  m, final_cols, parts, nrows, coverage >>
  /\ UNCHANGED << dvars, xvars >>

\* variant that counts a file for a column it has under another letter case
coverage_ci(cols, fs) ==
  [ j \in 1..Len(cols) |->
    << cols[j],
       Cardinality({ n \in 1..Len(fs) :
                     \E q \in 1..Len(fs[n].cols) : Lower(fs[n].cols[q]) = Lower(cols[j]) }),
       Len(fs) >> ]

\* the coverage rows of a module: (column, files with the column, files)
coverage_of(cols, fs) ==
  [ j \in 1..Len(cols) |->
    << cols[j],
       Cardinality({ n \in 1..Len(fs) : cols[j] \in Range(fs[n].cols) }),
       Len(fs) >> ]

\* the count ddf.shape[0].compute() returns: the partitions are loaded again
count_rows(fs, cols) ==
  LET RECURSIVE sum(_)
      sum(n) == IF n = 0 THEN 0
                ELSE sum(n - 1) + Len(load_one(files[fs[n].path].content, fs[n], cols).df.rows)
  IN  sum(Len(fs))

\* writer.close(), the row count and the coverage report of the module
FinishModule ==
  /\ pc = "write"
  /\ k > Len(parts)
  /\ out' = [out EXCEPT ![MODULES[m]].closed = TRUE]
  /\ nrows' = [nrows EXCEPT ![MODULES[m]] = Some(count_rows(parts, final_cols))]
  /\ coverage' = [coverage EXCEPT ![MODULES[m]] = coverage_of(final_cols, parts)]
  /\ m' = m + 1
  /\ pc' = "module"
  /\ UNCHANGED << files, i, info, module_to_union, module_to_files, skipped, failed,
                  final_cols, parts, k, loaded >>
  /\ UNCHANGED << dvars, xvars >>

\* build_with_dask returns
Finish ==
  /\ pc = "module"
  /\ m > Len(MODULES)
  /\ pc' = "done"
  /\ UNCHANGED << files, i, info, module_to_union, module_to_files, skipped, failed,
                  m, final_cols, parts, k, out, loaded, nrows, coverage >>
  /\ UNCHANGED << dvars, xvars >>

Next ==
  \/ Pass1File
  \/ Pass1Return
  \/ SkipModule
  \/ BeginModule
  \/ WritePart
  \/ FinishModule
  \/ Finish

Spec == Init /\ [][Next]_vars

(***************************************************************************)
(* The labelling run of apply_enoe_labels.py: the dictionaries are loaded, *)
(* consolidated, and the lookup of a variable is applied to a column.      *)
(***************************************************************************)
\* the consolidation run at rest
PipeIdle ==
  /\ files = << >>
  /\ pc = "done"
  /\ i = 1
  /\ info = << >>
  /\ module_to_union = [ t \in Tags |-> {} ]
  /\ module_to_files = [ t \in Tags |-> << >> ]
  /\ skipped = << >>
  /\ failed = << >>
  /\ m = 1
  /\ final_cols = << >>
  /\ parts = << >>
  /\ k = 1
  /\ out = [ t \in Tags |-> no_file ]
  /\ loaded = << >>
  /\ nrows = [ t \in Tags |-> None ]
  /\ coverage = [ t \in Tags |-> << >> ]

InitDict ==
  /\ PipeIdle
  /\ ExtIdle
  /\ dict_rows \in corpora(MaxEntries)
  /\ dpc = "rows"
  /\ base_maps = << >>
  /\ applied = no_lookup

\* main: base_maps = build_base_var_mappings(dict_rows); its exception ends
\* the run
BuildMappings ==
  /\ dpc = "rows"
  /\ IF cats_are_dicts(dict_rows)
     THEN /\ base_maps' = build_base_var_mappings(dict_rows)
          /\ dpc' = "built"
     ELSE /\ dpc' = "raised"
          /\ UNCHANGED base_maps
  /\ UNCHANGED << dict_rows, applied >>
  /\ UNCHANGED << pvars, xvars >>

\* apply_labels: the lookup of one variable of a base mapped over a column
ApplyLookup ==
  /\ dpc \in { "built", "applied" }
  /\ \E b \in DOMAIN base_maps : \E v \in DOMAIN base_maps[b] : \E column \in Columns :
        /\ DOMAIN base_maps[b][v] # {}
        /\ applied' = [base |-> b, variable |-> v, column |-> column,
                       labels |-> [ j \in 1..Len(column) |->
                                    lookup_fn(base_maps[b][v], column[j]) ]]
  /\ dpc' = "applied"
  /\ UNCHANGED << dict_rows, base_maps >>
  /\ UNCHANGED << pvars, xvars >>

NextDict ==
  \/ BuildMappings
  \/ ApplyLookup

SpecDict == InitDict /\ [][NextDict]_vars

(***************************************************************************)
(* The whole run of apply_enoe_labels.py: main loads the documents,        *)
(* consolidates them and labels the tables of the input directory one by   *)
(* one; then the same corpus and tables are run a second time, in a new    *)
(* process.                                                                *)
(***************************************************************************)
InitApply ==
  /\ PipeIdle
  /\ OtherIdle
  /\ dict_rows = << >>
  /\ dpc = "docs"
  /\ base_maps = << >>
  /\ applied = no_lookup
  /\ docs \in doc_lists(MaxDocs)
  /\ warned = {}
  /\ hash_seed \in { 0, 1 }
  /\ run = 1
  /\ in_dir \in InputDirs
  /\ tix = 1
  /\ labeled = [ n \in TableNames |-> no_output ]
  /\ columns_txt = [ n \in TableNames |-> no_text ]
  /\ diag_json = [ n \in TableNames |-> no_diag ]
  /\ first_labeled = [ n \in TableNames |-> no_output ]

\* main: rows = load_all_json_dicts(json_root)
LoadDicts ==
  /\ dpc = "docs"
  /\ LET r == load_all_json_dicts(docs)
     IN  IF r.ok
         THEN /\ dict_rows' = r.out
              /\ warned' = r.warned
              /\ dpc' = "rows"
         ELSE /\ dpc' = "raised"
              /\ UNCHANGED << dict_rows, warned >>
  /\ UNCHANGED << base_maps, applied, docs, hash_seed, run, in_dir, tix, labeled,
                  columns_txt, diag_json, first_labeled >>
  /\ UNCHANGED << pvars, ovars >>

\* main: one turn of the loop over parquet_list; an exception of
\* apply_labels_to_parquet ends the run
ApplyLabels ==
  /\ dpc = "built"
  /\ tix <= Len(in_dir)
  /\ LET t == in_dir[tix]
         r == apply_labels_to_parquet(t, dict_rows, base_maps, hash_seed, run)
     IN  /\ labeled' = IF r.out.exists THEN [labeled EXCEPT ![t.name] = r.out] ELSE labeled
         /\ columns_txt' = IF r.columns.exists
                           THEN [columns_txt EXCEPT ![t.name] = r.columns] ELSE columns_txt
         /\ diag_json' = IF r.diag.exists
                         THEN [diag_json EXCEPT ![t.name] = r.diag] ELSE diag_json
         /\ IF r.raised
            THEN dpc' = "raised" /\ tix' = tix
            ELSE dpc' = dpc /\ tix' = tix + 1
  /\ UNCHANGED << dict_rows, base_maps, applied, docs, warned, hash_seed, run, in_dir,
                  first_labeled >>
  /\ UNCHANGED << pvars, ovars >>

\* main returns: no table in the directory, or the last one labelled
FinishApply ==
  /\ dpc = "built"
  /\ tix > Len(in_dir)
  /\ dpc' = "done"
  /\ UNCHANGED << dict_rows, base_maps, applied >>
  /\ UNCHANGED avars
  /\ UNCHANGED << pvars, ovars >>

\* the program is started again on the same corpus and tables: a new process,
\* with a hash seed of its own; the files of the first run stay where they are
Rerun ==
  /\ dpc \in { "done", "raised" }
  /\ run = 1
  /\ run' = 2
  /\ hash_seed' \in { 0, 1 }
  /\ first_labeled' = labeled
  /\ dict_rows' = << >>
  /\ base_maps' = << >>
  /\ warned' = {}
  /\ tix' = 1
  /\ dpc' = "docs"
  /\ UNCHANGED << applied, docs, in_dir, labeled, columns_txt, diag_json >>
  /\ UNCHANGED << pvars, ovars >>

NextApply ==
  \/ LoadDicts
  \/ BuildMappings
  \/ ApplyLabels
  \/ FinishApply
  \/ Rerun

SpecApply == InitApply /\ [][NextApply]_vars

(***************************************************************************)
(* write_single_parquet_from_ddf(ddf, out_path) on its own: the partitions *)
(* are pandas frames with a dtype per column, Arrow infers the type of an  *)
(* object column from its values, and the ParquetWriter refuses a table    *)
(* whose schema is not the one it was opened with.                         *)
(***************************************************************************)
MaxParts == 4

\* the partitions a Python name can be bound to at once: first_df/table, the
\* previous pdf/tbl and the partition compute() has just returned
MaxResident == 3

val_1 == << "1" >>
val_old == << "o", "l", "d" >>

part_AB ==
  [cols  |-> << col_EDA, col_SEX >>,
   dtype |-> (col_EDA :> "string" @@ col_SEX :> "string"),
   rows  |-> << (col_EDA :> val_1 @@ col_SEX :> val_1) >>]

part_BA ==
  [cols  |-> << col_SEX, col_EDA >>,
   dtype |-> (col_EDA :> "string" @@ col_SEX :> "string"),
   rows  |-> << (col_EDA :> val_1 @@ col_SEX :> NA) >>]

part_A ==
  [cols  |-> << col_EDA >>,
   dtype |-> (col_EDA :> "string"),
   rows  |-> << (col_EDA :> val_1) >>]

part_ABC ==
  [cols  |-> << col_EDA, col_SEX, col_PER >>,
   dtype |-> (col_EDA :> "string" @@ col_SEX :> "string" @@ col_PER :> "string"),
   rows  |-> << (col_EDA :> val_1 @@ col_SEX :> val_1 @@ col_PER :> val_1) >>]

\* a frame whose column SEX is an object column of pd.NA only
part_AB_object ==
  [cols  |-> << col_EDA, col_SEX >>,
   dtype |-> (col_EDA :> "string" @@ col_SEX :> "object"),
   rows  |-> << (col_EDA :> val_1 @@ col_SEX :> NA) >>]

Partitions == { part_AB, part_BA, part_A, part_ABC, part_AB_object }

part_lists(n) == UNION { [1..len -> Partitions] : len \in 0..n }

\* the files an earlier run can have left at out_path: none, one whose writer
\* was never closed, one that is complete
old_partial ==
  [exists |-> TRUE, closed |-> FALSE,
   schema |-> << [name |-> col_EDA, type |-> "string"], [name |-> col_SEX, type |-> "string"] >>,
   rows   |-> << (col_EDA :> val_old @@ col_SEX :> val_old) >>]

old_complete ==
  [exists |-> TRUE, closed |-> TRUE,
   schema |-> << [name |-> col_EDA, type |-> "string"] >>,
   rows   |-> << (col_EDA :> val_old), (col_EDA :> val_1) >>]

OldFiles == { no_file, old_partial, old_complete }

\* the Arrow type pa.Table.from_pandas gives a column: a string column is
\* string whatever it holds, an object column takes the type of its values
\* and is of type null when it has none
arrow_type(df, c) ==
  IF df.dtype[c] = "string" THEN "string"
  ELSE IF \E r \in 1..Len(df.rows) : df.rows[r][c] # NA THEN "string"
  ELSE "null"

\* pa.Table.from_pandas(df, preserve_index=False)
from_pandas(df) ==
  [schema |-> [ j \in 1..Len(df.cols) |->
                  [name |-> df.cols[j], type |-> arrow_type(df, df.cols[j])] ],
   rows   |-> df.rows]

schema_names(schema) == [ j \in 1..Len(schema) |-> schema[j].name ]

\* pdf[c] = pd.NA for the columns of the writer pdf lacks, then
\* pdf = pdf[cols_writer]
realign(df, cols_writer) ==
  [cols  |-> cols_writer,
   dtype |-> [ c \in Range(cols_writer) |->
                 IF c \in Range(df.cols) THEN df.dtype[c] ELSE "object" ],
   rows  |-> [ r \in 1..Len(df.rows) |->
                 [ c \in Range(cols_writer) |->
                     IF c \in Range(df.cols) THEN df.rows[r][c] ELSE NA ] ]]

\* the table the loop hands to the writer for a later partition
later_table(df, writer_schema) ==
  IF from_pandas(df).schema # writer_schema
  THEN from_pandas(realign(df, schema_names(writer_schema)))
  ELSE from_pandas(df)

\* variant that opens the file at out_path for appending
ParquetWriter_append(file, schema) ==
  [exists |-> TRUE, closed |-> FALSE, schema |-> schema, rows |-> file.rows]

\* pq.ParquetWriter(out_path, schema): the file is created, whatever was there
ParquetWriter(file, schema) ==
  [exists |-> TRUE, closed |-> FALSE, schema |-> schema, rows |-> << >>]

\* writer.write_table(tbl): ValueError when the schema of tbl is not the
\* schema of the writer
writer_write_table(file, t) ==
  IF t.schema = file.schema
  THEN [ok |-> TRUE, file |-> [file EXCEPT !.rows = @ \o t.rows]]
  ELSE [ok |-> FALSE, file |-> file]

\* variant in which every computed partition stays referenced
keep_all(hp, names) == hp

\* reference counting: a partition no name is bound to is freed
collect(hp, names) ==
  { n \in hp : n \in { names.first_df, names.table, names.pdf, names.tbl } }

InitWriter ==
  /\ PipeIdle
  /\ LoadIdle
  /\ DictIdle
  /\ ApplyIdle
  /\ GeoIdle
  /\ ParseIdle
  /\ wparts \in part_lists(MaxParts)
  /\ wpc = "start"
  /\ wk = 1
  /\ locals = no_locals
  /\ heap = {}
  /\ old_file \in OldFiles
  /\ out_file = old_file

\* the head of the function: RuntimeError without partitions; else the first
\* partition is computed, fixes the schema of the writer and is written
WriterOpen ==
  /\ wpc = "start"
  /\ IF wparts = << >>
     THEN /\ wpc' = "raised"
          /\ UNCHANGED << wk, locals, heap, out_file >>
     ELSE LET table == from_pandas(wparts[1])
              names == [locals EXCEPT !.first_df = 1, !.table = 1]
          IN  /\ locals' = names
              /\ heap' = collect(heap \cup { 1 }, names)
              /\ out_file' = writer_write_table(ParquetWriter(out_file, table.schema),
                                                table).file
              /\ wk' = 2
              /\ wpc' = "loop"
  /\ UNCHANGED << wparts, old_file >>
  /\ UNCHANGED << pvars, dvars, avars, gvars, tvars, lvars >>

\* pdf = compute(p)[0]: the partition is materialized while first_df, table
\* and the tbl of the turn before are still bound
WriterCompute ==
  /\ wpc = "loop"
  /\ wk <= Len(wparts)
  /\ LET names == [locals EXCEPT !.pdf = wk]
     IN  /\ locals' = names
         /\ heap' = collect(heap \cup { wk }, names)
  /\ wpc' = "computed"
  /\ UNCHANGED << wparts, wk, out_file, old_file >>
  /\ UNCHANGED << pvars, dvars, avars, gvars, tvars, lvars >>

\* tbl = pa.Table.from_pandas(pdf), the re-alignment when the schemas differ,
\* and writer.write_table(tbl); its ValueError leaves the function, the
\* writer never closed
WriterAppend ==
  /\ wpc = "computed"
  /\ LET names == [locals EXCEPT !.tbl = wk]
         r == writer_write_table(out_file, later_table(wparts[wk], out_file.schema))
     IN  IF r.ok
         THEN /\ out_file' = r.file
              /\ locals' = names
              /\ heap' = collect(heap, names)
              /\ wk' = wk + 1
              /\ wpc' = "loop"
         ELSE /\ wpc' = "raised"
              /\ locals' = no_locals
              /\ heap' = collect(heap, no_locals)
              /\ UNCHANGED << out_file, wk >>
  /\ UNCHANGED << wparts, old_file >>
  /\ UNCHANGED << pvars, dvars, avars, gvars, tvars, lvars >>

\* writer.close() and the return of the function
WriterClose ==
  /\ wpc = "loop"
  /\ wk > Len(wparts)
  /\ out_file' = [out_file EXCEPT !.closed = TRUE]
  /\ locals' = no_locals
  /\ heap' = collect(heap, no_locals)
  /\ wpc' = "done"
  /\ UNCHANGED << wparts, wk, old_file >>
  /\ UNCHANGED << pvars, dvars, avars, gvars, tvars, lvars >>

NextWriter ==
  \/ WriterOpen
  \/ WriterCompute
  \/ WriterAppend
  \/ WriterClose

SpecWriter == InitWriter /\ [][NextWriter]_vars

(***************************************************************************)
(* The run of label_ent_mun.py: the catalog is read, then every table of   *)
(* PARQUETS_IN that exists gets the names of its entity and municipality   *)
(* and is written to OUT_DIR.                                              *)
(***************************************************************************)
CVE_ENT == << "C", "V", "E", "_", "E", "N", "T" >>

NOM_ENT == << "N", "O", "M", "_", "E", "N", "T" >>

CVE_MUN == << "C", "V", "E", "_", "M", "U", "N" >>

NOM_MUN == << "N", "O", "M", "_", "M", "U", "N" >>

col_ent == << "e", "n", "t" >>

col_ENT == << "E", "N", "T" >>

col_mun == << "m", "u", "n" >>

ent_nombre == << "e", "n", "t", "_", "n", "o", "m", "b", "r", "e" >>

mun_nombre == << "m", "u", "n", "_", "n", "o", "m", "b", "r", "e" >>

expected == { CVE_ENT, NOM_ENT, CVE_MUN, NOM_MUN }

PARQUETS_IN == << tagCOE1T, tagCOE2T, tagHOGT, tagSDEMT, tagVIVT >>

\* the rows of the catalog file, before any column is taken away
catalog_rows ==
  << (CVE_ENT :> << "9" >> @@ NOM_ENT :> << "D", "F" >> @@
      CVE_MUN :> << "1", "5" >> @@ NOM_MUN :> << "C", "u" >>),
     (CVE_ENT :> << "0", "9" >> @@ NOM_ENT :> << "C", "M" >> @@
      CVE_MUN :> << "0", "1", "6" >> @@ NOM_MUN :> << "M", "H" >>) >>

catalog_order == << CVE_ENT, NOM_ENT, CVE_MUN, NOM_MUN >>

\* the catalogs: every choice of columns among the expected ones (the header
\* " CVE_ENT" or "cve_ent" of a file is a column the catalog lacks)
Catalogs ==
  { [exists |-> TRUE,
     cols   |-> SelectSeq(catalog_order, LAMBDA c : c \in S),
     rows   |-> [ r \in 1..Len(catalog_rows) |-> [ c \in S |-> catalog_rows[r][c] ] ]] :
    S \in SUBSET expected }

\* the table master of a module, when it is there
geo_table(mod) ==
  IF mod = tagCOE1T
  THEN [exists |-> TRUE, cols |-> << col_ent >>,
        rows |-> << (col_ent :> << "9" >>) >>]
  ELSE IF mod = tagCOE2T
  THEN [exists |-> TRUE, cols |-> << col_ENT >>,
        rows |-> << (col_ENT :> << "0", "9" >>), (col_ENT :> NA) >>]
  ELSE IF mod = tagSDEMT
  THEN [exists |-> TRUE, cols |-> << col_SEX >>,
        rows |-> << (col_SEX :> << "1" >>) >>]
  ELSE [exists |-> TRUE, cols |-> << col_ent, col_mun >>,
        rows |-> << (col_ent :> << "9" >> @@ col_mun :> << "1", "6" >>),
                    (col_ent :> << "9" >> @@ col_mun :> << "7" >>) >>]

ParquetDirs ==
  { [ t \in Range(MODULES) |-> IF t \in S THEN Some(geo_table(t)) ELSE None ] :
    S \in SUBSET Range(MODULES) }

\* .astype(str).str.replace(r"\D", "").str.zfill(width) of a catalog cell
catalog_key(cell, width) == ZFill(only_digits(astype_str(cell)), width)

\* .astype("string").str.replace(r"\D", "").str.zfill(width) of a table cell:
\* a missing cell stays missing
table_key(cell, width) == IF cell = NA THEN NA ELSE Some(ZFill(only_digits(cell), width))

\* drop_duplicates(subset=keys): the first row of each key is kept
RECURSIVE drop_duplicates(_, _)
drop_duplicates(rows, keys) ==
  IF rows = << >> THEN << >>
  ELSE LET init == drop_duplicates(SubSeq(rows, 1, Len(rows) - 1), keys)
           last == rows[Len(rows)]
       IN  IF \E n \in 1..Len(init) : \A c \in keys : init[n][c] = last[c]
           THEN init ELSE Append(init, last)

\* the frames read_catalog builds from a catalog that has its columns
catalog_frames(cat) ==
  LET norm == [ r \in 1..Len(cat.rows) |->
                  [cat.rows[r] EXCEPT ![CVE_ENT] = catalog_key(@, 2),
                                      ![CVE_MUN] = catalog_key(@, 3)] ]
  IN  [ent  |-> drop_duplicates(
                  [ r \in 1..Len(norm) |-> [ c \in { CVE_ENT, NOM_ENT } |-> norm[r][c] ] ],
                  { CVE_ENT }),
       muni |-> drop_duplicates(
                  [ r \in 1..Len(norm) |->
                      [ c \in { CVE_ENT, CVE_MUN, NOM_MUN } |-> norm[r][c] ] ],
                  { CVE_ENT, CVE_MUN })]

\* variant that takes the catalog as it comes, a column it lacks read as null
read_catalog_unchecked(cat) ==
  LET full == [cat EXCEPT
                 !.rows = [ r \in 1..Len(cat.rows) |->
                              [ c \in expected |->
                                  IF c \in Range(cat.cols) THEN cat.rows[r][c] ELSE NA ] ]]
  IN  [ok |-> TRUE, ent |-> catalog_frames(full).ent, muni |-> catalog_frames(full).muni]

\* read_catalog: ValueError when an expected column is missing
read_catalog(cat) ==
  IF { c \in expected : c \notin Range(cat.cols) } # {}
  THEN [ok |-> FALSE, ent |-> << >>, muni |-> << >>]
  ELSE [ok |-> TRUE, ent |-> catalog_frames(cat).ent, muni |-> catalog_frames(cat).muni]

find_col_case_insensitive(cols, target) ==
  LET hits == { n \in 1..Len(cols) : Lower(cols[n]) = Lower(target) }
  IN  IF hits = {} THEN None ELSE Some(cols[SetMin(hits)])

\* the cell a left merge brings from the right frame: the column of the first
\* row with the keys, null without one
merged_cell(right, keys, col) ==
  LET hits == { n \in 1..Len(right) : \A c \in DOMAIN keys : Some(right[n][c]) = keys[c] }
  IN  IF hits = {} THEN NA ELSE right[SetMin(hits)][col]

\* label_one_parquet: the table written to OUT_DIR
label_one_parquet(t, ents, munis) ==
  LET ent_col == find_col_case_insensitive(t.cols, col_ent)
      mun_col == find_col_case_insensitive(t.cols, col_mun)
      ent_code(r) == IF ent_col = None THEN NA ELSE table_key(t.rows[r][ent_col[1]], 2)
      mun_code(r) == table_key(t.rows[r][mun_col[1]], 3)
      new_cols == (IF ent_col = None THEN << >> ELSE << ent_nombre >>)
                  \o (IF mun_col = None THEN << >> ELSE << mun_nombre >>)
      cell(r, c) ==
        IF c = ent_nombre THEN merged_cell(ents, (CVE_ENT :> ent_code(r)), NOM_ENT)
        ELSE IF c = mun_nombre
        THEN merged_cell(munis, (CVE_ENT :> ent_code(r) @@ CVE_MUN :> mun_code(r)), NOM_MUN)
        ELSE t.rows[r][c]
  IN  [exists |-> TRUE,
       cols   |-> t.cols \o new_cols,
       rows   |-> [ r \in 1..Len(t.rows) |->
                      [ c \in Range(t.cols \o new_cols) |-> cell(r, c) ] ]]

InitGeo ==
  /\ PipeIdle
  /\ LoadIdle
  /\ DictIdle
  /\ ApplyIdle
  /\ WriterIdle
  /\ ParseIdle
  /\ catalog \in Catalogs
  /\ gpc = "start"
  /\ gix = 1
  /\ parquets_in \in ParquetDirs
  /\ ent_df = << >>
  /\ muni_df = << >>
  /\ geo_out = [ t \in Range(MODULES) |-> no_table ]

\* __main__: ent_df, muni_df = read_catalog(CATALOGO_PATH)
ReadCatalog ==
  /\ gpc = "start"
  /\ LET r == read_catalog(catalog)
     IN  IF r.ok
         THEN /\ ent_df' = r.ent
              /\ muni_df' = r.muni
              /\ gpc' = "loop"
         ELSE /\ gpc' = "raised"
              /\ UNCHANGED << ent_df, muni_df >>
  /\ UNCHANGED << catalog, gix, parquets_in, geo_out >>
  /\ UNCHANGED << pvars, dvars, avars, wvars, tvars, lvars >>

\* __main__: a path of PARQUETS_IN that exists is labeled and written
LabelOne ==
  /\ gpc = "loop"
  /\ gix <= Len(PARQUETS_IN)
  /\ parquets_in[PARQUETS_IN[gix]] # None
  /\ geo_out' = [geo_out EXCEPT ![PARQUETS_IN[gix]] =
                   label_one_parquet(parquets_in[PARQUETS_IN[gix]][1], ent_df, muni_df)]
  /\ gix' = gix + 1
  /\ UNCHANGED << catalog, gpc, parquets_in, ent_df, muni_df >>
  /\ UNCHANGED << pvars, dvars, avars, wvars, tvars, lvars >>

\* __main__: a path that does not exist is passed over with a warning
SkipMissingParquet ==
  /\ gpc = "loop"
  /\ gix <= Len(PARQUETS_IN)
  /\ parquets_in[PARQUETS_IN[gix]] = None
  /\ gix' = gix + 1
  /\ UNCHANGED << catalog, gpc, parquets_in, ent_df, muni_df, geo_out >>
  /\ UNCHANGED << pvars, dvars, avars, wvars, tvars, lvars >>

\* __main__: the loop is over
FinishGeo ==
  /\ gpc = "loop"
  /\ gix > Len(PARQUETS_IN)
  /\ gpc' = "done"
  /\ UNCHANGED << catalog, gix, parquets_in, ent_df, muni_df, geo_out >>
  /\ UNCHANGED << pvars, dvars, avars, wvars, tvars, lvars >>

NextGeo ==
  \/ ReadCatalog
  \/ LabelOne
  \/ SkipMissingParquet
  \/ FinishGeo

SpecGeo == InitGeo /\ [][NextGeo]_vars

(***************************************************************************)
(* parse_tabla_base and year_quarter_rank on the "tabla" of two dictionary *)
(* entries, as build_base_var_mappings calls them for every entry.         *)
(***************************************************************************)
\* the spellings of a module base in a table name
BasePrefixes ==
  { << "C", "O", "E", "1" >>, << "C", "O", "E", "1", "T" >>, << "c", "o", "e", "2", "t" >>,
    << "S", "D", "E", "M", "T" >>, << "h", "o", "g", "t" >>, << "V", "I", "V" >> }

QuarterDigits == { "1", "2", "3", "4" }

YearDigits == { << "0", "5" >>, << "2", "3" >>, << "2", "4" >> }

\* the names with a release identifier, with their parts
ReleaseNames ==
  { [pref |-> p, q |-> q, yy |-> y, name |-> p \o << q >> \o y, release |-> TRUE] :
      p \in BasePrefixes, q \in QuarterDigits, y \in YearDigits }

\* names without a release identifier
PlainNames ==
  { [pref |-> n, q |-> "0", yy |-> << "0", "0" >>, name |-> n, release |-> FALSE] :
      n \in { << "H", "O", "G", "T" >>, << "s", "d", "e", "m", "t" >>, << "C", "O", "E", "1", "T", "-", "2", "4" >>, << >> } }

TablaNames == ReleaseNames \cup PlainNames

\* what build_base_var_mappings computes from the tabla of an entry
base_and_rank(tabla) ==
  LET p == parse_tabla_base(IF tabla = << >> THEN << "B", "A", "S", "E" >> ELSE tabla)
  IN  [base |-> p.base, tri |-> p.tri, yy |-> p.yy, rank |-> year_quarter_rank(p.tri, p.yy)]

InitParse ==
  /\ PipeIdle
  /\ LoadIdle
  /\ DictIdle
  /\ ApplyIdle
  /\ WriterIdle
  /\ GeoIdle
  /\ tablas \in TablaNames \X TablaNames
  /\ parsed = << >>
  /\ tpc = "names"

\* build_base_var_mappings: base, tri, yy and rank of the two entries
ParseTablas ==
  /\ tpc = "names"
  /\ parsed' = << base_and_rank(tablas[1].name), base_and_rank(tablas[2].name) >>
  /\ tpc' = "parsed"
  /\ UNCHANGED tablas
  /\ UNCHANGED << pvars, dvars, avars, wvars, gvars, lvars >>

NextParse == ParseTablas

SpecParse == InitParse /\ [][NextParse]_vars

(***************************************************************************)
(* read_full_csv_robust(path, enc, delim) on its own, for any file of the  *)
(* model and any encoding and delimiter handed to it.                      *)
(***************************************************************************)
LoadEncodings == { "utf-8", "latin-1" } \cup Range(AltEncodings)

InitLoad ==
  /\ PipeIdle
  /\ DictIdle
  /\ ApplyIdle
  /\ WriterIdle
  /\ GeoIdle
  /\ ParseIdle
  /\ load_in \in [c : Contents, enc : LoadEncodings, delim : Range(Delimiters)]
  /\ load_out = << >>
  /\ lpc = "call"

\* the call: the stages run, the first table one of them gives, and the
\* exception of the last stage when none does
ReadRobust ==
  /\ lpc = "call"
  /\ LET r == read_full_csv_robust(load_in.c, load_in.enc, load_in.delim)
     IN  /\ load_out' = [tried |-> stages_tried(load_in.c, load_in.enc, load_in.delim),
                         stage |-> r.stage, df |-> r.df]
         /\ lpc' = IF r.ok THEN "returned" ELSE "raised"
  /\ UNCHANGED load_in
  /\ UNCHANGED << pvars, dvars, avars, wvars, gvars, tvars >>

NextLoad == ReadRobust

SpecLoad == InitLoad /\ [][NextLoad]_vars

(***************************************************************************)
(* Properties of the consolidation run.                                    *)
(***************************************************************************)
Terminated == pc \in { "done", "raised" }

\* the files pass1 has gone through
Scanned == 1..(i - 1)

InfoPaths == { info[n].path : n \in 1..Len(info) }

LoadedOf(t) == { n \in 1..Len(loaded) : loaded[n].mod = t }

RECURSIVE SumRawRows(_, _)
SumRawRows(t, n) ==
  IF n = 0 THEN 0
  ELSE SumRawRows(t, n - 1) +
       (IF loaded[n].mod = t THEN Len(loaded[n].raw.rows) ELSE 0)

\* C1: the schema of a module is the three metadata columns followed by the
\* union of its files' header columns, with names that differ only in letter
\* case collapsed into one column, in an order that the set of names alone
\* decides.
C1_SchemaCaseCollapsedAndOrdered ==
  pc = "write" =>
    LET U == module_to_union[MODULES[m]]
    IN  /\ SubSeq(final_cols, 1, 3) = MetaCols
        /\ \A x \in U : \E j \in 1..Len(final_cols) : Lower(final_cols[j]) = Lower(x)
        /\ \A j \in 4..Len(final_cols) : \E x \in U : Lower(final_cols[j]) = Lower(x)
        /\ \A j1, j2 \in 1..Len(final_cols) :
              Lower(final_cols[j1]) = Lower(final_cols[j2]) => j1 = j2
        /\ \A other \in sorted_lower(U) : final_cols_of(other) = final_cols

\* C2: every column the full parse of a loaded file produced is a column of
\* the module's table and of its output file, and holds the file's values in
\* the file's rows.
C2_NoParsedColumnDropped ==
  \A n \in 1..Len(loaded) :
     \A col \in Range(loaded[n].raw.cols) :
        /\ col \in Range(loaded[n].df.cols)
        /\ \E j \in 1..Len(out[loaded[n].mod].schema) :
              out[loaded[n].mod].schema[j].name = col
        /\ \A r \in 1..Len(loaded[n].raw.rows) :
              loaded[n].df.rows[r][col] = loaded[n].raw.rows[r][col]

\* C3: once a module's file is closed its rows are as many as the rows of the
\* files of the module that were loaded, each loaded once; a file that was
\* skipped or whose headers failed is none of them; and the count logged for
\* the module is that number.
C3_RowCountConserved ==
  \A t \in Tags :
     out[t].closed =>
        /\ Len(out[t].rows) = SumRawRows(t, Len(loaded))
        /\ nrows[t] = Some(Len(out[t].rows))
        /\ \A a, b \in LoadedOf(t) : loaded[a].path = loaded[b].path => a = b
        /\ \A a \in LoadedOf(t) :
              /\ loaded[a].path \notin Range(skipped) \cup Range(failed)
              /\ detect_module_from_filename(files[loaded[a].path].name) = Some(t)
        /\ \A n \in 1..Len(info) :
              info[n].mod = t => \E a \in LoadedOf(t) : loaded[a].path = info[n].path

C3_Witness ==
  \E t \in Tags :
     /\ out[t].closed
     /\ Cardinality(LoadedOf(t)) = 2
     /\ Len(out[t].rows) >= 3

\* whether the load task of an entry of info succeeds when it is run
LoadsAlone(fi) == load_one(files[fi.path].content, fi, MetaCols).ok

\* C4: when the run has ended, every file of info whose own load task succeeds
\* has been loaded and its module's file written and closed, whatever happened
\* to the load task of another file.
C4_OtherFilesStillWritten ==
  Terminated =>
    \A n \in 1..Len(info) :
       LoadsAlone(info[n]) =>
          /\ \E a \in 1..Len(loaded) : loaded[a].path = info[n].path
          /\ out[info[n].mod].closed

\* "_YYYY_trimQ" at position p of a name, whatever follows it
EmbeddedPeriodAt(s, p) ==
  /\ p + 10 <= Len(s)
  /\ SubSeq(s, p, p + 2) = << "_", "2", "0" >>
  /\ IsDigit(s[p + 3]) /\ IsDigit(s[p + 4])
  /\ SubSeq(s, p + 5, p + 9) = << "_", "t", "r", "i", "m" >>
  /\ IsDigit(s[p + 10])

\* C5: every row of a loaded file whose name holds "_YYYY_trimQ", whatever
\* precedes or follows it, has anio = YYYY, trimestre = Q and
\* anio_trimestre = "YYYYTQ", whatever its PER field holds.
C5_NamePeriodTakesPrecedence ==
  \A n \in 1..Len(loaded) :
     LET name == files[loaded[n].path].name
     IN  \A p \in 1..Len(name) :
            (EmbeddedPeriodAt(name, p) /\ \A o \in 1..(p - 1) : ~EmbeddedPeriodAt(name, o)) =>
               \A r \in 1..Len(loaded[n].df.rows) :
                  /\ loaded[n].df.rows[r][col_anio] = Some(DigitsToNat(SubSeq(name, p + 1, p + 4)))
                  /\ loaded[n].df.rows[r][col_trimestre] = Some(DigitVal(name[p + 10]))
                  /\ loaded[n].df.rows[r][col_anio_trimestre] =
                        SubSeq(name, p + 1, p + 4) \o << "T", name[p + 10] >>

\* the digits of a cell, in order
DigitsOf(cell) == SelectSeq(cell, IsDigit)

\* the digits of a cell, left-padded with zeros to three digits
PaddedCode(cell) ==
  LET ds == DigitsOf(cell)
  IN  CASE Len(ds) = 0 -> << "0", "0", "0" >>
        [] Len(ds) = 1 -> << "0", "0" >> \o ds
        [] Len(ds) = 2 -> << "0" >> \o ds
        [] OTHER -> ds

\* the columns of a table named PER in any letter case
PerColumns(df) ==
  { j \in 1..Len(df.cols) :
      Len(df.cols[j]) = 3 /\ df.cols[j][1] \in { "p", "P" }
      /\ df.cols[j][2] \in { "e", "E" } /\ df.cols[j][3] \in { "r", "R" } }

NoPeriodInName(n) ==
  \A p \in 1..Len(files[loaded[n].path].name) : ~re_name_at(files[loaded[n].path].name, p)

\* C6 as stated: in a loaded file whose name yields no year and quarter, each
\* row's trimestre is the first digit of the row's PER code and its anio is
\* 2000 plus the number the next two digits form.
C6_FirstDigitOfPerCode ==
  \A n \in 1..Len(loaded) :
     (NoPeriodInName(n) /\ PerColumns(loaded[n].raw) # {}) =>
        \A r \in 1..Len(loaded[n].raw.rows) :
           LET ds == DigitsOf(loaded[n].raw.rows[r][loaded[n].raw.cols[SetMin(PerColumns(loaded[n].raw))]])
           IN  /\ Len(ds) >= 3
               /\ loaded[n].df.rows[r][col_trimestre] = Some(DigitVal(ds[1]))
               /\ loaded[n].df.rows[r][col_anio] =
                     Some(2000 + 10 * DigitVal(ds[2]) + DigitVal(ds[3]))

\* C6, amended: in a loaded file whose name yields no year and quarter, each
\* row's trimestre is the first digit, and its anio 2000 plus the number formed
\* by the next two digits, of the row's PER value with its non-digit characters
\* removed and left-padded with zeros to three digits (an empty value reads as
\* 000); the PER column is the first one named PER in any letter case, and
\* without such a column anio and trimestre are null.
C6_PaddedPerCode ==
  \A n \in 1..Len(loaded) :
     NoPeriodInName(n) =>
        \A r \in 1..Len(loaded[n].raw.rows) :
           IF PerColumns(loaded[n].raw) = {}
           THEN /\ loaded[n].df.rows[r][col_trimestre] = NA
                /\ loaded[n].df.rows[r][col_anio] = NA
           ELSE LET code == PaddedCode(loaded[n].raw.rows[r][loaded[n].raw.cols[SetMin(PerColumns(loaded[n].raw))]])
                IN  /\ loaded[n].df.rows[r][col_trimestre] = Some(DigitVal(code[1]))
                    /\ loaded[n].df.rows[r][col_anio] =
                          Some(2000 + 10 * DigitVal(code[2]) + DigitVal(code[3]))

C6_Witness ==
  \E n \in 1..Len(loaded) :
     /\ NoPeriodInName(n)
     /\ col_per \in Range(loaded[n].raw.cols)
     /\ \E r \in 1..Len(loaded[n].df.rows) :
           /\ loaded[n].raw.rows[r][col_per] = << "2", "4" >>
           /\ loaded[n].df.rows[r][col_trimestre] = Some(0)
           /\ loaded[n].df.rows[r][col_anio] = Some(2024)

AllEncodings ==
  { "utf-8", "utf-8-sig", "cp1252", "latin-1", "utf-16", "utf-16le", "utf-16be" }

\* some encoding and delimiter give the file a header of at least one column
SomePairGivesColumns(c) ==
  \E enc \in AllEncodings : \E d \in Range(Delimiters) :
     \/ read_header(decode_lines(c, enc), d).ok /\ Len(read_header(decode_lines(c, enc), d).cols) > 0
     \/ read_header_file(c, enc, d).ok /\ Len(read_header_file(c, enc, d).cols) > 0

\* C7: every entry of info, and so every file of pass 2, carries an encoding
\* and a delimiter under which the zero-row parse of the file gives the
\* recorded columns, more than zero of them; a file that no pair gives columns
\* is in no list and adds nothing to a union; and the scan goes on: every
\* scanned file with a module and a pair that gives columns is in info.
C7_HeaderPairRecorded ==
  /\ \A n \in 1..Len(info) :
        LET c == files[info[n].path].content
        IN  /\ info[n].encoding \in AllEncodings
            /\ info[n].delimiter \in Range(Delimiters)
            /\ Len(info[n].cols) > 0
            /\ read_header(decode_lines(c, info[n].encoding), info[n].delimiter).cols = info[n].cols
            /\ Range(info[n].cols) \subseteq module_to_union[info[n].mod]
  /\ \A n \in 1..Len(parts) : \E j \in 1..Len(info) : parts[n] = info[j]
  /\ \A p \in Scanned :
        ~SomePairGivesColumns(files[p].content) =>
           /\ p \notin InfoPaths
           /\ \A t \in Tags : p \notin Range(module_to_files[t])
  /\ \A t \in Tags :
        module_to_union[t] =
           UNION { Range(info[n].cols) : n \in { j \in 1..Len(info) : info[j].mod = t } }
  /\ \A p \in Scanned :
        (SomePairGivesColumns(files[p].content) /\ p \notin Range(skipped)) => p \in InfoPaths
  /\ pc # "pass1" => Scanned = 1..Len(files)

C7_Witness ==
  /\ pc = "write"
  /\ \E a \in Range(failed) : \E n \in 1..Len(parts) : a < parts[n].path

\* the module tags the upper-cased name holds
TagsIn(name) ==
  LET up == Upper(name)
  IN  { j \in 1..Len(MODULES) : Contains(up, MODULES[j]) }

\* C8 as stated: a scanned file is assigned to a module exactly when its
\* upper-cased name holds one of the five tags, and is skipped otherwise.
C8_AssignedIffTag ==
  \A p \in Scanned : (p \notin Range(skipped)) <=> (TagsIn(files[p].name) # {})

\* the module of a name: its first tag in the order of MODULES, else COE1T for
\* a name that holds COE1, else COE2T for a name that holds COE2
ExpectedModule(name) ==
  LET up   == Upper(name)
      tags == TagsIn(name)
  IN  IF tags # {} THEN Some(MODULES[SetMin(tags)])
      ELSE IF \E q \in 1..(Len(up) - 3) : SubSeq(up, q, q + 3) = << "C", "O", "E", "1" >>
      THEN Some(tagCOE1T)
      ELSE IF \E q \in 1..(Len(up) - 3) : SubSeq(up, q, q + 3) = << "C", "O", "E", "2" >>
      THEN Some(tagCOE2T)
      ELSE None

\* C8, amended: a scanned file is assigned to a module exactly when its
\* upper-cased name holds one of the five tags or one of the short forms COE1
\* and COE2 (assigned to COE1T and COE2T); it is assigned to one module only,
\* the first tag of MODULES it holds; a file whose name holds none of these is
\* skipped, adds nothing to any module, and the scan goes on to the last file.
C8_AssignedIffTagOrShortForm ==
  LET module_of == [ p \in 1..Len(files) |-> ExpectedModule(files[p].name) ]
  IN  /\ \A p \in Scanned : (p \in Range(skipped)) <=> (module_of[p] = None)
      /\ \A n \in 1..Len(info) : Some(info[n].mod) = module_of[info[n].path]
      /\ \A a, b \in 1..Len(info) : info[a].path = info[b].path => a = b
      /\ \A t \in Tags : \A j \in 1..Len(module_to_files[t]) :
            module_of[module_to_files[t][j]] = Some(t)
      /\ \A p \in Scanned : p \in Range(skipped) \cup Range(failed) \cup InfoPaths
      /\ pc # "pass1" => Scanned = 1..Len(files)

C8_Witness ==
  /\ pc = "done"
  /\ 1 \in Range(skipped)
  /\ \E n \in 1..Len(info) :
        /\ info[n].path = 2
        /\ TagsIn(files[2].name) = {}
        /\ info[n].mod = tagCOE1T
        /\ out[tagCOE1T].closed

(***************************************************************************)
(* Properties of the labelling run.                                        *)
(***************************************************************************)
Built == dpc \in { "built", "applied" }

\* the (rank, local_map) pairs of the entries of dict_rows, in their order
RankedRows == [ j \in 1..Len(dict_rows) |-> ranked_map(dict_rows[j]) ]

\* the entries that belong to the group (b, v), rm being RankedRows
GroupEntries(rm, b, v) ==
  { j \in 1..Len(rm) : rm[j].base = b /\ rm[j].variable = v }

\* the entries of the group that define a key, and those of them of the
\* highest release rank
Defining(rm, b, v, key) == { j \in GroupEntries(rm, b, v) : key \in DOMAIN rm[j].map }

Newest(rm, b, v, key) ==
  LET defs == Defining(rm, b, v, key)
  IN  { j \in defs : \A j2 \in defs : rm[j2].rank <= rm[j].rank }

\* C9: for every (module-base, variable) group the consolidated mapping has
\* exactly the normalized keys the entries of the group define, and for every
\* such key (those defined by entries of more than one release included) it
\* holds the label given by an entry of the highest release rank among the
\* entries that define the key.
C9_MostRecentReleaseWins ==
  Built =>
    LET rm == RankedRows
    IN  \A b \in DOMAIN base_maps : \A v \in DOMAIN base_maps[b] :
          /\ DOMAIN base_maps[b][v] =
               UNION { DOMAIN rm[j].map : j \in GroupEntries(rm, b, v) }
          /\ \A key \in DOMAIN base_maps[b][v] :
               base_maps[b][v][key] \in { rm[j].map[key] : j \in Newest(rm, b, v, key) }

\* two entries of one group define the key "01" with different labels, the
\* newer release first in the corpus, and the mapping holds the newer label
C9_Witness ==
  /\ Built
  /\ Len(dict_rows) = 2
  /\ dict_rows[1].tabla = << "H", "O", "G", "T", "4", "2", "4" >>
  /\ dict_rows[2].tabla = << "H", "O", "G", "T", "2", "2", "2" >>
  /\ dict_rows[1].categorias = << [valor |-> << "0", "1" >>, categoria |-> label_informal] >>
  /\ dict_rows[2].categorias = << [valor |-> << "0", "1" >>, categoria |-> label_formal] >>
  /\ base_maps[tagHOGT][var_SEX][<< "0", "1" >>] = label_informal

\* the codes the entries of the group (b, v) define, trimmed
DefinedCodes(b, v) ==
  UNION { { Strip(c.valor) : c \in { x \in Range(dict_rows[j].categorias) :
                                        Strip(x.categoria) # << >> } } :
          j \in GroupEntries(RankedRows, b, v) } \ { << >> }

\* a raw value denotes the code: the same integer value for a numeric code,
\* equality up to letter case for another, surrounding whitespace apart
Denotes(raw, code) ==
  IF IsIntNumeral(code)
  THEN IsIntNumeral(Strip(raw)) /\ StrToInt(Strip(raw)) = StrToInt(code)
  ELSE ~IsIntNumeral(Strip(raw)) /\ Upper(Strip(raw)) = Upper(code)

\* the codes of the group that denote the same code hold one label
Unambiguous(b, v, code) ==
  \A c2 \in DefinedCodes(b, v) :
     Denotes(c2, code) => base_maps[b][v][c2] = base_maps[b][v][code]

\* C10 as stated: if the dictionary defines a numeric code of value n for a
\* variable, every raw value that is, once trimmed, an integer numeral of
\* value n gets that code's label, and if it defines a non-numeric code, every
\* raw value equal to it up to letter case and surrounding whitespace gets
\* its label.
C10_EveryDenotingValueGetsCodeLabel ==
  dpc = "applied" =>
    \A code \in DefinedCodes(applied.base, applied.variable) :
      \A j \in 1..Len(applied.column) :
         Denotes(applied.column[j], code) =>
           applied.labels[j] = Some(base_maps[applied.base][applied.variable][code])

\* C10 amended: the same, for the codes that are unambiguous, i.e. when no
\* other code of the variable with the same integer value (or equal up to
\* letter case) holds a different label in the consolidated mapping.
C10_UnambiguousCodeLabel ==
  dpc = "applied" =>
    \A code \in DefinedCodes(applied.base, applied.variable) :
      Unambiguous(applied.base, applied.variable, code) =>
        \A j \in 1..Len(applied.column) :
           Denotes(applied.column[j], code) =>
             applied.labels[j] = Some(base_maps[applied.base][applied.variable][code])

\* the code "001" alone is defined and the values "1", "01", " 1 " and "001"
\* of the column all get its label
C10_Witness ==
  /\ dpc = "applied"
  /\ DefinedCodes(applied.base, applied.variable) = { << "0", "0", "1" >> }
  /\ Unambiguous(applied.base, applied.variable, << "0", "0", "1" >>)
  /\ \E j \in 1..Len(applied.column) :
        /\ applied.column[j] = << " ", "1", " " >>
        /\ applied.labels[j] =
             Some(base_maps[applied.base][applied.variable][<< "0", "0", "1" >>])


(***************************************************************************)
(* Properties of the whole labelling run.                                  *)
(***************************************************************************)
\* the tables apply_labels_to_parquet has been called on in this run
Processed ==
  { n \in 1..Len(in_dir) :
      dpc \in { "built", "done", "raised" } /\ (n < tix \/ (n = tix /\ dpc = "raised")) }

BaseOf(t) == base_from_parquet_path(t.name)[1]

\* the columns of a table a dictionary variable matches, letter case apart
MatchingColumns(t, v) == { c \in Range(t.cols) : Upper(c) = Upper(v) }

\* C11: for every table the run has processed and every variable of its
\* module-base with a (non-empty) consolidated mapping whose name matches a
\* column of the table case-insensitively, the call completed and the output
\* has a column "<column>_label" holding, in each row, the label of the first
\* normalized variant of the row's raw value found in the mapping, or null;
\* whatever the variable names of the dictionary are, names that differ only
\* in letter case included.
C11_EveryMatchingVariableLabelled ==
  \A n \in Processed :
     LET t == in_dir[n]
     IN  BaseOf(t) \in DOMAIN base_maps =>
           \A v \in DOMAIN base_maps[BaseOf(t)] :
              (DOMAIN base_maps[BaseOf(t)][v] # {} /\ MatchingColumns(t, v) # {}) =>
                 /\ labeled[t.name].exists
                 /\ labeled[t.name].run = run
                 /\ \E c \in MatchingColumns(t, v) :
                       /\ (c \o label_suffix) \in Range(labeled[t.name].cols)
                       /\ \A r \in 1..Len(t.rows) :
                             labeled[t.name].rows[r][c \o label_suffix] =
                                map_element(base_maps[BaseOf(t)][v], t.rows[r][c])

\* C12: the output of a processed table has every column of the input under
\* the same name with the same value in every row, the same number of rows,
\* and no other column than "<column>_label" columns the input does not have.
C12_SourceColumnsUntouched ==
  \A n \in Processed :
     LET t == in_dir[n]
         o == labeled[t.name]
     IN  (o.exists /\ o.run = run) =>
           /\ Len(o.rows) = Len(t.rows)
           /\ \A c \in Range(t.cols) :
                 /\ c \in Range(o.cols)
                 /\ \A r \in 1..Len(t.rows) : o.rows[r][c] = t.rows[r][c]
           /\ \A c \in Range(o.cols) \ Range(t.cols) :
                 \E x \in Range(t.cols) : c = x \o label_suffix

ConsolidationAborted == dpc = "raised" /\ base_maps = << >>

\* the entries of the readable documents that are objects
GoodEntries ==
  { e \in UNION { Range(docs[j].items) : j \in { x \in 1..Len(docs) : docs[x].kind # "unreadable" } } :
      is_dict(e) }

\* C16: with a corpus of at least one document, a document that cannot be
\* read is warned about and the consolidation never aborts, whatever a document
\* holds; once the mappings are built, every code of every entry of every
\* readable document is a key of the mapping of its (module-base, variable).
C16_CorpusSurvivesBadDocument ==
  docs # << >> =>
    /\ ~ConsolidationAborted
    /\ dpc \in { "rows", "built", "done" } =>
          warned = { j \in 1..Len(docs) : docs[j].kind = "unreadable" }
    /\ dpc \in { "built", "done" } =>
          \A e \in GoodEntries : \A n \in 1..Len(e.categorias) :
             is_dict(e.categorias[n]) =>
                /\ parse_tabla_base(e.tabla).base \in DOMAIN base_maps
                /\ e.variable \in DOMAIN base_maps[parse_tabla_base(e.tabla).base]
                /\ e.categorias[n].valor \in
                     DOMAIN base_maps[parse_tabla_base(e.tabla).base][e.variable]

\* C19: every table the run has processed has its three outputs: the labeled
\* table, the diagnostic JSON and the column listing, whether or not its
\* module-base has a consolidated mapping.
C19_ThreeOutputsPerTable ==
  \A n \in Processed :
     dpc # "raised" =>
        /\ labeled[in_dir[n].name].exists
        /\ diag_json[in_dir[n].name].exists
        /\ columns_txt[in_dir[n].name].exists

(***************************************************************************)
(* Properties of write_single_parquet_from_ddf.                            *)
(***************************************************************************)
WriterRunning == wpc \in { "loop", "computed" }

\* the writer was opened in this call
WriterOpened == wpc \in { "loop", "computed", "done" } \/ (wpc = "raised" /\ wparts # << >>)

\* C14 as stated: never more than a constant number of partitions resident,
\* a partition materialized only at its turn, and, once a partition has been
\* appended, no partition before it still resident.
C14_NoneRetainedAfterLater ==
  /\ Cardinality(heap) <= MaxResident
  /\ \A n \in heap : n <= wk
  /\ wpc = "loop" => heap \subseteq { wk - 1 }

\* C14, amended: at most MaxResident partitions are resident at any moment,
\* whatever the number of partitions; a partition is materialized only at
\* its turn; the first partition stays resident until the writer is closed;
\* any other partition is released once the partition after it has been
\* materialized and converted.
C14_ResidentBoundedFirstKept ==
  /\ Cardinality(heap) <= MaxResident
  /\ \A n \in heap : n <= wk /\ n <= Len(wparts)
  /\ WriterRunning => 1 \in heap
  /\ wpc = "loop" => heap = { 1, wk - 1 }
  /\ wpc = "computed" => heap = { 1, wk - 1, wk }
  /\ wpc \in { "done", "raised" } => heap = {}

\* the last of MaxParts partitions of one schema has been materialized
C14_Witness ==
  /\ wparts = [ n \in 1..MaxParts |-> part_AB ]
  /\ wpc = "computed"
  /\ wk = MaxParts
  /\ heap = { 1, MaxParts - 1, MaxParts }

\* the columns of the writer a partition has with another Arrow type
TypeClash(df, schema) ==
  { n \in 1..Len(schema) :
      schema[n].name \in Range(df.cols) /\ arrow_type(df, schema[n].name) # schema[n].type }

\* C15: the first partition fixes the schema of the file; every row of the
\* file has exactly the columns of the writer, a column its partition lacks
\* being null; and the append of a later partition never fails unless the
\* partition has a column of the writer with another type (so the append of
\* a partition re-aligned for its missing, extra or reordered columns
\* succeeds).
C15_RealignedAppendSucceeds ==
  WriterOpened =>
    /\ out_file.schema = from_pandas(wparts[1]).schema
    /\ \A r \in 1..Len(out_file.rows) :
          /\ DOMAIN out_file.rows[r] = Range(schema_names(out_file.schema))
          /\ \A c \in DOMAIN out_file.rows[r] :
                c \notin Range(wparts[r].cols) => out_file.rows[r][c] = NA
    /\ wpc = "raised" => TypeClash(wparts[wk], out_file.schema) # {}

RECURSIVE RowsOfParts(_)
RowsOfParts(n) == IF n = 0 THEN 0 ELSE RowsOfParts(n - 1) + Len(wparts[n].rows)

\* C20: once the writer is opened, the file at out_path has the schema of
\* this run's first partition and as many rows as the partitions appended in
\* this run have, none of them a row only the earlier file had, whether the
\* earlier file was complete or partial; this holds on to the end of the
\* call, be it the close of the writer or an exception.
C20_OnlyRowsOfThisRun ==
  WriterOpened =>
    /\ out_file.exists
    /\ out_file.schema = from_pandas(wparts[1]).schema
    /\ Len(out_file.rows) = RowsOfParts(IF wpc = "computed" \/ wpc = "raised" THEN wk - 1
                                        ELSE IF wpc = "done" THEN Len(wparts) ELSE wk - 1)
    /\ \A r \in 1..Len(out_file.rows) :
          \A c \in DOMAIN out_file.rows[r] : out_file.rows[r][c] # val_old
    /\ wpc = "done" => out_file.closed

\* a partial file of an earlier run was at out_path and the call wrote two
\* partitions over it
C20_Witness ==
  /\ old_file = old_partial
  /\ wpc = "done"
  /\ Len(wparts) = 2
  /\ Len(out_file.rows) = 2
  /\ out_file.closed

(***************************************************************************)
(* The output of a consolidation run: the records logging has written.     *)
(***************************************************************************)
\* one record per logging call made so far: its level, what it is about, the
\* file or module it names and the number it states, if any
run_output ==
  { [level |-> "INFO", about |-> "csv_files", subject |-> None, count |-> Some(Len(files))] }
  \cup { [level |-> "WARNING", about |-> "skipped", subject |-> Some(files[p].name),
          count |-> None] : p \in Range(skipped) }
  \cup { [level |-> "ERROR", about |-> "failed", subject |-> Some(files[p].name),
          count |-> None] : p \in Range(failed) }
  \cup { [level |-> "INFO", about |-> "rows", subject |-> Some(t), count |-> nrows[t]] :
           t \in { x \in Tags : nrows[x] # None } }
  \cup (IF pc = "done"
        THEN { [level |-> "INFO", about |-> "done", subject |-> None, count |-> None] }
        ELSE {})

\* C18: when the run has ended, its output has a record that states the
\* number of files skipped as unclassifiable and a record that states the
\* number of files dropped for their headers, each equal to the number of
\* such events of the run.
C18_SkipAndFailCountsStated ==
  pc = "done" =>
    /\ \E e \in run_output : e.about = "skipped" /\ e.count = Some(Len(skipped))
    /\ \E e \in run_output : e.about = "failed" /\ e.count = Some(Len(failed))

(***************************************************************************)
(* Properties of label_ent_mun.py.                                         *)
(***************************************************************************)
CatalogLacksColumn == \E c \in expected : c \notin Range(catalog.cols)

\* C17: when the catalog lacks one of CVE_ENT, NOM_ENT, CVE_MUN, NOM_MUN,
\* read_catalog raises: the run never enters the loop over the tables, ends
\* raised, and no labeled table of any module is written.
C17_CatalogMismatchFatal ==
  (gpc # "idle" /\ CatalogLacksColumn) =>
    /\ gpc \in { "start", "raised" }
    /\ \A t \in Range(MODULES) : ~geo_out[t].exists

\* the catalog lacks NOM_MUN only, there are tables to label, and the run
\* has ended raised
C17_Witness ==
  /\ Range(catalog.cols) = expected \ { NOM_MUN }
  /\ \A t \in Range(MODULES) : parquets_in[t] # None
  /\ gpc = "raised"

(***************************************************************************)
(* Properties of the diagnostic of apply_labels_to_parquet.                *)
(***************************************************************************)
\* the processed tables whose call went past the early return and the write
Diagnosed ==
  { n \in Processed :
      /\ diag_json[in_dir[n].name].exists
      /\ BaseOf(in_dir[n]) \in DOMAIN base_maps }

\* C21: the missing-variable list of the diagnostic of a table holds exactly
\* the dictionary variables of the table's module-base that no column of the
\* table matches, letter case apart; a variable with a matching column is
\* not in the list.
C21_MissingListIsAbsentVariables ==
  \A n \in Diagnosed :
     LET t == in_dir[n]
     IN  Range(diag_json[t.name].missing_in_parquet) =
           { v \in DOMAIN base_maps[BaseOf(t)] : MatchingColumns(t, v) = {} }

\* the variables of a table's module-base that got a label column
MappedVariables(t) ==
  { v \in DOMAIN base_maps[BaseOf(t)] :
      DOMAIN base_maps[BaseOf(t)][v] # {} /\ MatchingColumns(t, v) # {} }

SampleRows(t) == 1..(IF Len(t.rows) < sample_rows_diag THEN Len(t.rows) ELSE sample_rows_diag)

YearOf(x) == 2000 + DigitsToNat(x.yy)

QuarterOf(x) == DigitsToNat(<< x.q >>)

Earlier(x, y) ==
  YearOf(x) < YearOf(y) \/ (YearOf(x) = YearOf(y) /\ QuarterOf(x) < QuarterOf(y))

\* C23: a name made of a module base, a quarter digit and two year digits is
\* parsed to one of the five canonical bases (the base of the name in upper
\* case, with its final T), its quarter and its year offset, and ranked
\* (2000+yy)*10+q; of two such names the one of the earlier (year, quarter)
\* has the lower rank; a name without identifier gets quarter 0, year offset
\* 0 and a rank below that of every name with one.
C23_RankIsChronological ==
  tpc = "parsed" =>
    /\ \A n \in { 1, 2 } :
          IF tablas[n].release
          THEN /\ parsed[n].base \in Range(MODULES)
               /\ parsed[n].base \in { Upper(tablas[n].pref), Upper(tablas[n].pref) \o << "T" >> }
               /\ parsed[n].tri = QuarterOf(tablas[n])
               /\ parsed[n].yy = DigitsToNat(tablas[n].yy)
               /\ parsed[n].rank = YearOf(tablas[n]) * 10 + QuarterOf(tablas[n])
          ELSE parsed[n].tri = 0 /\ parsed[n].yy = 0
    /\ (tablas[1].release /\ tablas[2].release) =>
          /\ (parsed[1].rank < parsed[2].rank) <=> Earlier(tablas[1], tablas[2])
          /\ (parsed[1].rank = parsed[2].rank) <=>
                (YearOf(tablas[1]) = YearOf(tablas[2]) /\ QuarterOf(tablas[1]) = QuarterOf(tablas[2]))
    /\ (~tablas[1].release /\ tablas[2].release) => parsed[1].rank < parsed[2].rank

\* the fourth quarter of 2023 and the first of 2024, written with two
\* spellings of a base, have been ranked
C23_Witness ==
  /\ tpc = "parsed"
  /\ tablas[1].release /\ tablas[2].release
  /\ tablas[1].q = "4" /\ tablas[1].yy = << "2", "3" >>
  /\ tablas[2].q = "1" /\ tablas[2].yy = << "2", "4" >>
  /\ parsed[1].base = tagCOE1T /\ tablas[1].pref # tagCOE1T
  /\ parsed[1].rank < parsed[2].rank

(***************************************************************************)
(* Properties of read_full_csv_robust.                                     *)
(***************************************************************************)
StageOk(n) == stage_outcome(load_in.c, load_in.enc, load_in.delim, n).ok

StageTable(n) == stage_outcome(load_in.c, load_in.enc, load_in.delim, n).df

\* stage 2 failed in decoding the file
DecodeFailure == ~decode_strict_ok(load_in.c, load_in.enc)

LoadedOfCurrent ==
  IF pc \in { "write", "raised" }
  THEN { n \in 1..Len(loaded) : loaded[n].mod = MODULES[m] }
  ELSE {}

\* the signature build_with_dask declares for a module
CanonicalSignature(cols) ==
  [ j \in 1..Len(cols) |->
    [name |-> cols[j],
     type |-> IF cols[j] \in { col_anio, col_trimestre } THEN "int64" ELSE "string"] ]

\* C25: every table load_one returns for a module has the module's canonical
\* columns in canonical order, anio and trimestre as integers and the rest
\* as strings; a column the file lacks is null in every row of its table.
C25_PerFileTableIsCanonical ==
  /\ pc \in { "write", "raised" } =>
       \E u \in sorted_lower(module_to_union[MODULES[m]]) : final_cols = final_cols_of(u)
  /\ \A n \in LoadedOfCurrent :
       LET e == loaded[n]
       IN  /\ e.df.cols = final_cols
           /\ schema_of(e.df) = CanonicalSignature(final_cols)
           /\ Len(e.df.rows) = Len(e.raw.rows)
           /\ \A r \in 1..Len(e.df.rows) :
                /\ DOMAIN e.df.rows[r] = Range(final_cols)
                /\ \A col \in Range(final_cols) \ (Range(MetaCols) \cup Range(e.raw.cols)) :
                     e.df.rows[r][col] = NA
                /\ \A col \in Range(e.raw.cols) \cap Range(final_cols) :
                     e.df.rows[r][col] = e.raw.rows[r][col]

\* a file with rows that lacks a column another file of its module has
C25_Witness ==
  \E n \in LoadedOfCurrent :
    /\ loaded[n].raw.rows # << >>
    /\ \E col \in Range(final_cols) \ (Range(MetaCols) \cup Range(loaded[n].raw.cols)) :
         \A r \in 1..Len(loaded[n].df.rows) : loaded[n].df.rows[r][col] = NA

\* the rows of the consolidated table of module t
ConsolidatedRows(t) == IF out[t].exists THEN out[t].rows ELSE << >>

\* C26: in every row of every consolidated table anio_trimestre is the
\* decimal text of the row's anio, "T" and the decimal text of the row's
\* trimestre when both are there, and null when either is null.
C26_LabelIsOwnYearAndQuarter ==
  \A t \in Tags : \A r \in 1..Len(ConsolidatedRows(t)) :
    LET row == ConsolidatedRows(t)[r]
    IN  IF row[col_anio] = NA \/ row[col_trimestre] = NA
        THEN row[col_anio_trimestre] = NA
        ELSE row[col_anio_trimestre] =
               IntToStr(row[col_anio][1]) \o << "T" >> \o IntToStr(row[col_trimestre][1])

\* one consolidated table with a row of a known period and a row of none
C26_Witness ==
  \E t \in Tags :
    /\ \E r \in 1..Len(ConsolidatedRows(t)) :
         /\ ConsolidatedRows(t)[r][col_anio] # NA
         /\ ConsolidatedRows(t)[r][col_anio_trimestre] # NA
    /\ \E r \in 1..Len(ConsolidatedRows(t)) :
         /\ ConsolidatedRows(t)[r][col_anio] = NA
         /\ ConsolidatedRows(t)[r][col_anio_trimestre] = NA

(***************************************************************************)
(* Properties of the coverage report.                                      *)
(***************************************************************************)
\* the modules whose table is written and closed
Written == { t \in Tags : out[t].exists /\ out[t].closed }

\* the files of module t whose pass-1 header has the column
FilesWithColumn(t, col) ==
  { n \in 1..Len(files_mod(t)) : col \in Range(files_mod(t)[n].cols) }

\* C27: the report of a written module has one row per canonical column, in
\* order, with the number of the module's files whose pass-1 header has the
\* column and the number of the module's files; a count is between 0 and the
\* total, and at least 1 for a column of the union of the headers.
C27_CoverageCountsHeaders ==
  \A t \in Written :
    LET rep == coverage[t]
        canonical == [ j \in 1..Len(out[t].schema) |-> out[t].schema[j].name ]
    IN  /\ Len(rep) = Len(canonical)
        /\ \A j \in 1..Len(rep) :
             /\ rep[j][1] = canonical[j]
             /\ rep[j][2] = Cardinality(FilesWithColumn(t, canonical[j]))
             /\ rep[j][3] = Len(files_mod(t))
             /\ rep[j][2] >= 0
             /\ rep[j][2] <= rep[j][3]
             /\ canonical[j] \in module_to_union[t] => rep[j][2] >= 1
        /\ \A col \in module_to_union[t] \cup Range(MetaCols) :
             Cardinality({ j \in 1..Len(rep) : rep[j][1] = col }) = 1

\* a module of two files with a column only one of them has, next to a
\* metadata column none of them has
C27_Witness ==
  \E t \in Written :
    /\ \E j \in 1..Len(coverage[t]) : coverage[t][j][2] = 1 /\ coverage[t][j][3] = 2
    /\ \E j \in 1..Len(coverage[t]) : coverage[t][j][1] = col_anio /\ coverage[t][j][2] = 0

(***************************************************************************)
(* Properties of the metadata columns.                                     *)
(***************************************************************************)
\* the pass-1 header of the entry has a column named as a metadata column
HasOwnMetaColumn(fi) == \E j \in 1..Len(MetaCols) : MetaCols[j] \in Range(fi.cols)

\* C28: a file whose own header has a column named anio, trimestre or
\* anio_trimestre is loaded in pass 2: the task does not raise on it, and its
\* table has each of the three metadata columns once.
C28_OwnMetaColumnLoads ==
  /\ (pc = "raised" /\ HasOwnMetaColumn(parts[k])) =>
       ~read_full_csv_robust(files[parts[k].path].content,
                             parts[k].encoding, parts[k].delimiter).ok
  /\ \A n \in 1..Len(loaded) : \A j \in 1..Len(MetaCols) :
       Cardinality({ q \in 1..Len(loaded[n].df.cols) : loaded[n].df.cols[q] = MetaCols[j] }) = 1

(***************************************************************************)
(* Properties of the lookup over the consolidated dictionary.              *)
(***************************************************************************)
\* the categories of entry j that define a code equivalent to the raw value
EquivalentCats(j, raw) ==
  { c \in Range(dict_rows[j].categorias) :
      /\ Strip(c.valor) # << >>
      /\ Strip(c.categoria) # << >>
      /\ Denotes(raw, Strip(c.valor)) }

\* the entries of the group (b, v) that define a code equivalent to the raw
\* value, and those of them of the highest release rank
EquivalentDefs(b, v, raw) ==
  { j \in GroupEntries(RankedRows, b, v) : EquivalentCats(j, raw) # {} }

NewestEquivalent(b, v, raw) ==
  { j \in EquivalentDefs(b, v, raw) :
      \A j2 \in EquivalentDefs(b, v, raw) : RankedRows[j2].rank <= RankedRows[j].rank }

\* C29: the label the lookup returns for a raw value is the label of an entry
\* of the highest release rank among the entries of the variable that define
\* a code equivalent to the value (equal after trimming, letter-case folding
\* or zero padding).
C29_NewestEquivalentCodeWins ==
  dpc = "applied" =>
    \A j \in 1..Len(applied.column) :
      LET raw == applied.column[j]
          top == NewestEquivalent(applied.base, applied.variable, raw)
      IN  top # {} =>
            applied.labels[j] \in
              { Some(Strip(c.categoria)) : c \in UNION { EquivalentCats(n, raw) : n \in top } }

(***************************************************************************)
(* Properties of the merge under another order of the corpus.              *)
(***************************************************************************)
\* the corpus read in every order
Reorderings ==
  LET n == Len(dict_rows)
  IN  { [ j \in 1..n |-> dict_rows[p[j]] ] :
        p \in { f \in [1..n -> 1..n] : \A a, b \in 1..n : f[a] = f[b] => a = b } }

\* two entries of one group and one release rank give one key two labels
TieConflict ==
  LET rm == RankedRows
  IN  \E j1, j2 \in 1..Len(rm) :
        /\ j1 # j2
        /\ rm[j1].base = rm[j2].base
        /\ rm[j1].variable = rm[j2].variable
        /\ rm[j1].rank = rm[j2].rank
        /\ \E key \in DOMAIN rm[j1].map \cap DOMAIN rm[j2].map :
              rm[j1].map[key] # rm[j2].map[key]

\* C30 as stated: the consolidated mapping is the same for every order of
\* the entries, entries of one release rank included.
C30_MergeIsOrderIndependent ==
  Built => \A rows \in Reorderings : build_base_var_mappings(rows) = base_maps

\* C30, amended: the consolidated mapping is the same for every order of the
\* entries when no two entries of a group with the same release rank give
\* one key different labels.
C30_OrderIndependentWithoutTieConflict ==
  (Built /\ ~TieConflict) =>
    \A rows \in Reorderings : build_base_var_mappings(rows) = base_maps

\* two releases of one group give the key "01" different labels, the newer
\* release first in the corpus
C30_Witness ==
  /\ Built
  /\ ~TieConflict
  /\ Len(dict_rows) = 2
  /\ RankedRows[1].base = RankedRows[2].base
  /\ RankedRows[1].rank > RankedRows[2].rank
  /\ << "0", "1" >> \in DOMAIN RankedRows[1].map \cap DOMAIN RankedRows[2].map
  /\ RankedRows[1].map[<< "0", "1" >>] # RankedRows[2].map[<< "0", "1" >>]
  /\ base_maps[RankedRows[1].base][var_SEX][<< "0", "1" >>] = RankedRows[1].map[<< "0", "1" >>]

=============================================================================
